---- MODULE Spec2Model ----
(***************************************************************************)
(* A model of the Neutron game engine (src/neutron.ts): the fixed-timestep  *)
(* frame driver of class Engine together with the Loader's pending-asset    *)
(* count, the rectangle collision, probes, velocity setters, friction and   *)
(* gravity/jump resolution of the classes Collision and Platformer, and the *)
(* registry of class Game with the id checks of class GameObject.           *)
(*                                                                         *)
(* Times are integer milliseconds.  Positions, sizes and velocities are     *)
(* fixed-point numbers in hundredths (100 is 1.0), so that the one-decimal   *)
(* rounding of the velocity setters is a real operation; the sums of the    *)
(* probes are rounded as floating-point sums are (operator Fl).             *)
(***************************************************************************)
EXTENDS Integers, Sequences, FiniteSets, TLC

VARIABLES
  engine,        \* the fields of the Engine singleton
  wired,         \* TRUE once Engine.init has installed the singletons
  assetsToLoad,  \* Loader.assetsToLoad
  rafPending,    \* frame-driver callbacks handed to requestAnimationFrame
  now,           \* performance.now()
  frame,         \* observation of the most recent frame-driver invocation
  initCalls,     \* how many times the host's init callback has run
  objs,          \* the game objects, by reference
  sprites,       \* Game.sprites: the registry, a sequence of references
  particles,     \* Game.particles, a sequence of references
  call           \* observation of the most recent Collision/Platformer call

vars == <<engine, wired, assetsToLoad, rafPending, now, frame, initCalls,
          objs, sprites, particles, call>>

engineVars == <<engine, wired, assetsToLoad, rafPending, now, frame, initCalls>>
gameVars == <<objs, sprites, particles, call>>

(***************************************************************************)
(* Bounds of the model.                                                     *)
(***************************************************************************)
MaxTime == 15
MaxAssets == 1
MaxFrames == 1
MaxRaf == 2

\* elapsed milliseconds between two handlers
Deltas == {0, 3, 12}
\* values of EngineSettings.tps
TpsValues == {500, 1000}

(***************************************************************************)
(* Engine                                                                   *)
(***************************************************************************)
DefaultIdealTps == 70
DefaultMaxUpdatesPerFrame == 5
DefaultFramesToSkip == 1
SoftCapFactor == 5
MsPerSecond == 1000

\* 1000 / idealTps, in whole milliseconds
MinFrameTimeOf(tpsv) == MsPerSecond \div tpsv

\* Engine.constructor
EngineConstructor(t) ==
  [ fps |-> 0, tps |-> 0, fpsCounter |-> 0, tpsCounter |-> 0,
    idealTps |-> DefaultIdealTps,
    lastUpdateTime |-> t,
    minFrameTime |-> MinFrameTimeOf(DefaultIdealTps),
    accumulatedTime |-> 0,
    maxUpdatesPerFrame |-> DefaultMaxUpdatesPerFrame,
    enableFrameSkipping |-> TRUE,
    framesToSkip |-> DefaultFramesToSkip,
    stopVal |-> FALSE,
    hasInited |-> FALSE,
    hasLoadedAssets |-> FALSE ]

\* What the host's callbacks do during one frame-driver invocation:
\*   stopAt   - the step of the frame in whose update the host calls stop()
\*   loadAt   - the step of the frame in whose update the host requests an asset
\*   initLoad - whether the host's init callback requests an asset
\*   throwAt  - the step of the frame in whose update a callback raises
\*   throwInit - whether the host's init callback raises
\* (0 means never).
HostInputs ==
  [ stopAt : 0..1, loadAt : 0..1, initLoad : BOOLEAN,
    throwAt : {0}, throwInit : {FALSE} ]

\* hosts whose callbacks raise errors
ThrowingInputs ==
  [ stopAt : {0}, loadAt : {0}, initLoad : {FALSE},
    throwAt : 0..2, throwInit : BOOLEAN ]

NoFrame ==
  [ via |-> "none", log |-> <<>>, stoppedAtEntry |-> FALSE, pendingAtEntry |-> 0,
    initedAtEntry |-> FALSE, tpsBefore |-> 0, accIn |-> 0, accLoop |-> 0,
    updates |-> 0, tests |-> <<>>, stopAt |-> 0, paused |-> FALSE,
    rafAtEntry |-> 0, elapsed |-> 0, thrown |-> FALSE ]

\* The world a frame-driver invocation reads and writes.
World(e, assets, raf, inits) ==
  [ e |-> e, assets |-> assets, raf |-> raf, inits |-> inits,
    log |-> <<>>, tests |-> <<>>, updates |-> 0, accIn |-> 0, accLoop |-> 0,
    paused |-> FALSE, thrown |-> FALSE ]

\* Loader.loadImage / Loader.loadAudio, as far as the pending count goes
LoadAsset(w) == [w EXCEPT !.assets = @ + 1]

\* Engine.stop
StopEngine(e) == [e EXCEPT !.stopVal = TRUE]

\* the host's init callback (EngineSettings.init)
HostInit(w, in) ==
  LET w1 == [w EXCEPT !.log = Append(@, "init"), !.inits = @ + 1]
      w2 == IF in.initLoad THEN LoadAsset(w1) ELSE w1
  IN  IF in.throwInit THEN [w2 EXCEPT !.thrown = TRUE] ELSE w2

\* the update closure installed by Engine.init, for step k of the frame
Update(w, k, in) ==
  LET w1 == [w EXCEPT !.log = Append(@, "update")]
      w2 == IF in.loadAt = k THEN LoadAsset(w1) ELSE w1
      w3 == IF in.stopAt = k THEN [w2 EXCEPT !.e = StopEngine(@)] ELSE w2
  IN  IF in.throwAt = k THEN [w3 EXCEPT !.thrown = TRUE] ELSE w3

\* a frame driver that catches what its callbacks raise and goes on
Unwinds_Caught(w) == FALSE

\* an error raised by a callback leaves the frame driver at once: neither
\* Engine.startLoop nor the update closure has a try statement
Unwinds(w) == w.thrown

\* the loop test without the bound on the steps of one frame
LoopTest_Unbounded(e, updates) ==
  e.accumulatedTime >= e.minFrameTime

\* the loop test of the catch-up loop
LoopTest(e, updates) ==
  /\ e.accumulatedTime >= e.minFrameTime
  /\ updates < e.maxUpdatesPerFrame

\* the catch-up loop of Engine.startLoop
RECURSIVE CatchUp(_, _)
CatchUp(w, in) ==
  LET w0 == [w EXCEPT !.tests = Append(@, w.e.accumulatedTime)]
  IN  IF LoopTest(w.e, w.updates)
      THEN LET w1 == Update(w0, w.updates + 1, in)
               w2 == [w1 EXCEPT !.e.tpsCounter = @ + 1,
                                !.e.accumulatedTime = @ - w1.e.minFrameTime,
                                !.updates = @ + 1]
           IN  IF Unwinds(w1) THEN w1 ELSE CatchUp(w2, in)
      ELSE w0

\* the frame-skip policy without the soft ceiling
SkipPolicy_NoCeiling(e) ==
  IF e.enableFrameSkipping /\ e.accumulatedTime > e.minFrameTime * e.framesToSkip
  THEN [e EXCEPT !.accumulatedTime = 0]
  ELSE e

\* the frame-skip policy of Engine.startLoop
SkipPolicy(e) ==
  IF e.enableFrameSkipping /\ e.accumulatedTime > e.minFrameTime * e.framesToSkip
  THEN [e EXCEPT !.accumulatedTime = 0]
  ELSE IF e.accumulatedTime > e.minFrameTime * SoftCapFactor
       THEN [e EXCEPT !.accumulatedTime = e.minFrameTime * SoftCapFactor]
       ELSE e

\* the part of Engine.startLoop that decides whether the frame is paused
PauseCheck(e, assets) ==
  IF assets = 0 THEN [e EXCEPT !.hasLoadedAssets = FALSE] ELSE e

\* the init call without the idempotency flag
InitOnce_EveryFrame(w, in) ==
  [HostInit(w, in) EXCEPT !.e.hasInited = TRUE]

\* the one-time call of the host's init callback in Engine.startLoop
InitOnce(w, in) ==
  IF ~w.e.hasInited
  THEN LET wi == HostInit(w, in)
       IN  IF Unwinds(wi) THEN wi ELSE [wi EXCEPT !.e.hasInited = TRUE]
  ELSE w

\* a frame driver that ignores the stop flag
StoppedAtEntry_Ignored(e) == FALSE

\* the early return of Engine.startLoop while the engine is stopped
StoppedAtEntry(e) == e.stopVal

\* window.requestAnimationFrame(this.startLoop)
RequestAnimationFrame(w) ==
  [w EXCEPT !.raf = @ + 1, !.log = Append(@, "raf")]

\* a draw pass that is skipped in a frame without a simulation step
DrawPass_OnlyAfterSteps(w) ==
  IF w.updates = 0 THEN w ELSE [w EXCEPT !.log = Append(@, "draw")]

\* getRender().drawFunction()(): the draw pass of the frame
DrawPass(w) == [w EXCEPT !.log = Append(@, "draw")]

\* a time accounting that adds the reading of the clock
Accumulate_WallClock(e, t) ==
  [e EXCEPT !.accumulatedTime = @ + t,
            !.lastUpdateTime = t]

\* the time accounting of Engine.startLoop at currentTime = t
Accumulate(e, t) ==
  [e EXCEPT !.accumulatedTime = @ + (t - e.lastUpdateTime),
            !.lastUpdateTime = t]

\* Engine.startLoop, invoked at time t
StartLoop(w, t, in) ==
  IF StoppedAtEntry(w.e) THEN w
  ELSE
    LET wp == [w EXCEPT !.e = PauseCheck(@, w.assets)]
    IN  IF wp.e.hasLoadedAssets
        THEN RequestAnimationFrame([wp EXCEPT !.paused = TRUE])
        ELSE
          LET wi == InitOnce(wp, in)
              wf == [wi EXCEPT !.e.fpsCounter = @ + 1]
              wt == [wf EXCEPT !.e = Accumulate(@, t)]
              wa == [wt EXCEPT !.accIn = wt.e.accumulatedTime]
              wl == CatchUp(wa, in)
              ws == [wl EXCEPT !.accLoop = wl.e.accumulatedTime,
                               !.e = SkipPolicy(@)]
          IN  IF Unwinds(wi) THEN wi
              ELSE IF Unwinds(wl) THEN wl
              ELSE RequestAnimationFrame(DrawPass(ws))

\* what an invocation of the frame driver showed
Observed(via, before, assets, raf, elapsed, after, in) ==
  [ via |-> via, log |-> after.log,
    rafAtEntry |-> raf, elapsed |-> elapsed,
    stoppedAtEntry |-> before.stopVal,
    pendingAtEntry |-> assets,
    initedAtEntry |-> before.hasInited,
    tpsBefore |-> before.tpsCounter,
    accIn |-> after.accIn, accLoop |-> after.accLoop,
    updates |-> after.updates, tests |-> after.tests,
    stopAt |-> IF in.stopAt <= after.updates THEN in.stopAt ELSE 0,
    paused |-> after.paused, thrown |-> after.thrown ]

Commit(w) ==
  /\ w.assets <= MaxAssets
  /\ w.e.fpsCounter <= MaxFrames
  /\ w.inits <= MaxFrames + 1
  /\ w.raf <= MaxRaf
  /\ engine' = w.e
  /\ assetsToLoad' = w.assets
  /\ rafPending' = w.raf
  /\ initCalls' = w.inits

\* Engine.init(engineSettings): tpsv is engineSettings.tps, nLoad the number
\* of assets the host's load callback requests
EngineInit(tpsv, nLoad, dt, in) ==
  /\ ~wired
  /\ now + dt <= MaxTime
  /\ LET e1 == [engine EXCEPT !.idealTps = tpsv,
                              !.minFrameTime = MinFrameTimeOf(tpsv)]
         e2 == IF nLoad # 0 THEN [e1 EXCEPT !.hasLoadedAssets = TRUE] ELSE e1
         w  == StartLoop(World(e2, nLoad, rafPending, initCalls), now + dt, in)
     IN  /\ Commit(w)
         /\ frame' = Observed("init", e2, nLoad, rafPending, 0, w, in)
  /\ wired' = TRUE
  /\ now' = now + dt
  /\ UNCHANGED gameVars

\* the callback requestAnimationFrame(this.startLoop) fires, dt after the
\* previous handler
Frame(dt, in) ==
  /\ wired
  /\ rafPending > 0
  /\ now + dt <= MaxTime
  /\ LET w == StartLoop(World(engine, assetsToLoad, rafPending - 1, initCalls),
                        now + dt, in)
     IN  /\ Commit(w)
         /\ frame' = Observed("raf", engine, assetsToLoad, rafPending - 1, 0, w, in)
  /\ now' = now + dt
  /\ UNCHANGED <<wired, gameVars>>

\* Engine.stop(), called from an event handler between two frames
Stop ==
  /\ wired
  /\ engine' = StopEngine(engine)
  /\ frame' = NoFrame
  /\ UNCHANGED <<wired, assetsToLoad, rafPending, now, initCalls, gameVars>>

\* a resume that keeps the time accounting of before the stop
ResumeReset_KeepTime(e, t) ==
  [e EXCEPT !.stopVal = FALSE]

\* the assignments of Engine.start() before it runs the frame driver
ResumeReset(e, t) ==
  [e EXCEPT !.stopVal = FALSE,
            !.lastUpdateTime = t,
            !.accumulatedTime = 0]

\* Engine.start(), called from an event handler between two frames
Start(dt, in) ==
  /\ wired
  /\ now + dt <= MaxTime
  /\ IF engine.stopVal
     THEN LET e1 == ResumeReset(engine, now + dt)
              w  == StartLoop(World(e1, assetsToLoad, rafPending, initCalls),
                              now + dt, in)
          IN  /\ Commit(w)
              /\ frame' = Observed("start", e1, assetsToLoad, rafPending,
                                   now + dt - engine.lastUpdateTime, w, in)
     ELSE /\ UNCHANGED <<engine, assetsToLoad, rafPending, initCalls>>
          /\ frame' = [NoFrame EXCEPT !.via = "start-noop"]
  /\ now' = now + dt
  /\ UNCHANGED <<wired, gameVars>>

\* Engine.setEnableFrameSkipping
SetEnableFrameSkipping(b) ==
  /\ wired
  /\ engine.enableFrameSkipping # b
  /\ engine' = [engine EXCEPT !.enableFrameSkipping = b]
  /\ frame' = NoFrame
  /\ UNCHANGED <<wired, assetsToLoad, rafPending, now, initCalls, gameVars>>

\* image.onload of Loader.loadImage
AssetLoaded ==
  /\ wired
  /\ assetsToLoad > 0
  /\ assetsToLoad' = assetsToLoad - 1
  /\ frame' = NoFrame
  /\ UNCHANGED <<engine, wired, rafPending, now, initCalls, gameVars>>

\* the setInterval callback of Engine.startPerformanceTracker
PerformanceTracker ==
  /\ wired
  /\ engine.fpsCounter > 0
  /\ engine' = [engine EXCEPT !.fps = engine.fpsCounter,
                              !.tps = engine.tpsCounter,
                              !.fpsCounter = 0,
                              !.tpsCounter = 0]
  /\ frame' = NoFrame
  /\ UNCHANGED <<wired, assetsToLoad, rafPending, now, initCalls, gameVars>>

(***************************************************************************)
(* Game objects, Collision and Platformer                                   *)
(*                                                                         *)
(* An object is a record; objs maps references to objects and sprites is    *)
(* the registry Game.sprites.  kind is the runtime class of the object.     *)
(* Lengths and velocities are in hundredths: 100 is 1.0, 10 is 0.1.         *)
(***************************************************************************)
Null == <<>>

\* `sprite instanceof type` for the classes Sprite and Platformer
InstanceOf(kind, type) ==
  \/ kind = type
  \/ (kind = "Platformer" /\ type = "Sprite")

\* Game.getSpritesByType
GetSpritesByType(o, sp, type) ==
  SelectSeq(sp, LAMBDA r : InstanceOf(o[r].kind, type))

\* Game.getSpriteById: <<the first registered sprite with the id>>, or
\* Null for undefined
GetSpriteById(o, sp, id) ==
  LET found == SelectSeq(sp, LAMBDA r : o[r].id = id)
  IN  IF Len(found) > 0 THEN <<found[1]>> ELSE Null

\* a constructor that never finds the id taken
IdTaken_Never(o, sp, id) == FALSE

\* the test of GameObject.constructor and of GameObject.setId that throws
IdTaken(o, sp, id) == GetSpriteById(o, sp, id) # Null

\* GameObject.setId where the test has passed
SetId(p, id) == [p EXCEPT !.id = id]

\* Sprite.setStageLevel
SetStageLevel(p, stageLevel) == [p EXCEPT !.stageLevel = stageLevel]

\* a stable sort by stageLevel: the first element goes behind the elements
\* of a lower level of the sorted rest and before the others
RECURSIVE StableSorted(_, _)
StableSorted(o, arr) ==
  IF arr = <<>> THEN <<>>
  ELSE LET first == Head(arr)
           rest == StableSorted(o, Tail(arr))
       IN  SelectSeq(rest, LAMBDA r : o[r].stageLevel < o[first].stageLevel)
             \o <<first>>
             \o SelectSeq(rest, LAMBDA r : o[r].stageLevel >= o[first].stageLevel)

\* a sort that leaves the array as it is
SortSprites_Unsorted(o, arr) == arr

\* Game.sortSprites: Array.prototype.sort by stageLevel, which is stable
SortSprites(o, arr) == StableSorted(o, arr)

Includes(arr, r) == \E i \in DOMAIN arr : arr[i] = r

\* the forEach of addNewSprite and of addParticle: each element of added is
\* pushed unless the array includes it
RECURSIVE PushNew(_, _)
PushNew(arr, added) ==
  IF added = <<>> THEN arr
  ELSE PushNew(IF Includes(arr, Head(added)) THEN arr
               ELSE Append(arr, Head(added)),
               Tail(added))

\* Game.addNewSprite with the sprites of the argument (one, or an array)
AddNewSprite(o, sp, added) == SortSprites(o, PushNew(sp, added))

\* Game.addParticle
AddParticle(pa, added) == PushNew(pa, added)

\* a deletion that empties the registry
DeleteSpriteById_All(o, sp, id) == <<>>

\* Game.deleteSpriteById and Game.deleteParticleById
DeleteSpriteById(o, sp, id) == SelectSeq(sp, LAMBDA r : o[r].id # id)
DeleteParticleById(o, pa, id) == SelectSeq(pa, LAMBDA r : o[r].id # id)

\* Game.getParticleById
GetParticleById(o, pa, id) ==
  LET found == SelectSeq(pa, LAMBDA r : o[r].id = id)
  IN  IF Len(found) > 0 THEN <<found[1]>> ELSE Null

\* Game.deleteSpritesByType and Game.deleteParticlesByType: the filter keeps
\* the elements for which `sprite instanceof type` holds
DeleteSpritesByType(o, sp, type) ==
  SelectSeq(sp, LAMBDA r : InstanceOf(o[r].kind, type))
DeleteParticlesByType(o, pa, type) ==
  SelectSeq(pa, LAMBDA r : InstanceOf(o[r].kind, type))

DefaultGravityAcc == 20
DefaultSpeed == 50

\* Sprite.constructor (through GameObject.constructor)
NewSprite(x, y, width, height) ==
  [ kind |-> "Sprite", x |-> x, y |-> y, width |-> width, height |-> height,
    vx |-> 0, vy |-> 0, vxSpeed |-> 0, vySpeed |-> 0,
    maxVX |-> Null, maxVY |-> Null, gravityAcc |-> 0,
    hasPlatformerBelow |-> FALSE, checkAllPlatformers |-> FALSE,
    platformersToCheckCollision |-> <<>> ]

\* Platformer.constructor, with the registry as it is at construction
NewPlatformer(x, y, width, height, registered) ==
  [ kind |-> "Platformer", x |-> x, y |-> y, width |-> width, height |-> height,
    vx |-> 0, vy |-> 0, vxSpeed |-> DefaultSpeed, vySpeed |-> DefaultSpeed,
    maxVX |-> Null, maxVY |-> Null, gravityAcc |-> DefaultGravityAcc,
    hasPlatformerBelow |-> FALSE, checkAllPlatformers |-> TRUE,
    platformersToCheckCollision |-> registered ]

\* GameObject.constructor stores the id; Sprite.constructor the stageLevel
WithId(p, id, stageLevel) == [id |-> id, stageLevel |-> stageLevel] @@ p

\* Particle.constructor (through GameObject.constructor)
NewParticle(id, x, y, width, height) ==
  [ kind |-> "Particle", id |-> id, x |-> x, y |-> y, width |-> width,
    height |-> height ]

Abs(v) == IF v < 0 THEN -v ELSE v

(***************************************************************************)
(* Coordinates are numbers (binary floating point): a sum is rounded to the *)
(* width of the significand, ties to the even significand.  The model keeps *)
(* SignificandBits bits, counted in its unit of 0.01, in place of the 53 of *)
(* a double over its finest unit: a sum below 2^SignificandBits units is    *)
(* exact, as every sum of the scenes near the origin is.                    *)
(***************************************************************************)
SignificandBits == 11

RECURSIVE Pow2(_)
Pow2(k) == IF k = 0 THEN 1 ELSE 2 * Pow2(k - 1)

\* the magnitude from which on the numbers lie more than one unit apart
Exact == Pow2(SignificandBits)

\* the distance between neighbouring numbers at magnitude m
RECURSIVE Spacing(_, _)
Spacing(m, q) ==
  IF m < q * Exact THEN q ELSE Spacing(m, 2 * q)

\* the number that stands for the exact value n
Fl(n) ==
  LET m == Abs(n)
      q == Spacing(m, 1)
      lo == (m \div q) * q
      rest == m - lo
      near == IF 2 * rest < q THEN lo
              ELSE IF 2 * rest > q THEN lo + q
              ELSE IF (lo \div q) % 2 = 0 THEN lo ELSE lo + q
  IN  IF m < Exact THEN n
      ELSE IF n < 0 THEN -near ELSE near

\* a touching test that also counts a shared edge
Touching_Inclusive(me, other) ==
  /\ me.x <= Fl(other.x + other.width)
  /\ Fl(me.x + me.width) >= other.x
  /\ me.y <= Fl(other.y + other.height)
  /\ Fl(me.y + me.height) >= other.y

\* Collision.touching: me is the sprite the Collision belongs to
Touching(me, other) ==
  /\ me.x < Fl(other.x + other.width)
  /\ Fl(me.x + me.width) > other.x
  /\ me.y < Fl(other.y + other.height)
  /\ Fl(me.y + me.height) > other.y

\* GameObject.setY
SetY(p, y) == [p EXCEPT !.y = y]

\* Number(v.toFixed(1)): v rounded to a multiple of 0.1, halves away from zero
ToFixed1(v) ==
  IF v >= 0 THEN ((v + 5) \div 10) * 10
  ELSE -(((-v + 5) \div 10) * 10)

\* Platformer.setVY
SetVY(p, val) ==
  LET v == ToFixed1(val)
  IN  IF p.maxVY # Null /\ v > p.maxVY[1] THEN [p EXCEPT !.vy = p.maxVY[1]]
      ELSE IF p.maxVY # Null /\ v < -p.maxVY[1] THEN [p EXCEPT !.vy = -p.maxVY[1]]
      ELSE [p EXCEPT !.vy = v]

\* a setter of vx that stores the rounded value without the limit
SetVX_NoClamp(p, val) == [p EXCEPT !.vx = ToFixed1(val)]

\* Platformer.setVX
SetVX(p, val) ==
  LET v == ToFixed1(val)
  IN  IF p.maxVX # Null /\ v > p.maxVX[1] THEN [p EXCEPT !.vx = p.maxVX[1]]
      ELSE IF p.maxVX # Null /\ v < -p.maxVX[1] THEN [p EXCEPT !.vx = -p.maxVX[1]]
      ELSE [p EXCEPT !.vx = v]

\* a setMaxVX that brings the stored vx under the new limit at once
SetMaxVX_Clamping(p, max) ==
  [p EXCEPT !.maxVX = max,
            !.vx = IF max # Null /\ @ > max[1] THEN max[1]
                   ELSE IF max # Null /\ @ < -max[1] THEN -max[1] ELSE @]

\* Platformer.setMaxVX and setMaxVY: max is Null or <<limit>>
SetMaxVX(p, max) == [p EXCEPT !.maxVX = max]
SetMaxVY(p, max) == [p EXCEPT !.maxVY = max]

\* v * friction with friction in hundredths; what is below a hundredth is cut
\* off, which never changes the rounding to one decimal that follows
Times(v, friction) ==
  IF v * friction >= 0 THEN (v * friction) \div 100
  ELSE -((-(v * friction)) \div 100)

\* the magnitude below which friction stops a Platformer: 0.3
RestThreshold == 30

\* Platformer.addFrictionX
AddFrictionX(p, friction) ==
  LET m1 == SetVX(p, Times(p.vx, friction))
  IN  IF Abs(m1.vx) < RestThreshold THEN SetVX(m1, 0) ELSE m1

\* Platformer.addFrictionY
AddFrictionY(p, friction) ==
  LET m1 == SetVY(p, Times(p.vy, friction))
  IN  IF Abs(m1.vy) < RestThreshold THEN SetVY(m1, 0) ELSE m1

\* GameObject.setX
SetX(p, x) == [p EXCEPT !.x = x]

ProbeOffset == 100
Nudge == 10

\* the body of the forEach of Platformer.doGravity for one candidate
ResolveY(me, platformer, same) ==
  IF Touching(me, platformer) /\ ~same
  THEN LET m1 == IF me.vy < 0
                 THEN SetY(me, Fl(platformer.y + platformer.height))
                 ELSE [SetY(me, Fl(platformer.y - me.height))
                         EXCEPT !.hasPlatformerBelow = TRUE]
           m2 == IF Touching(m1, platformer)
                 THEN SetY(m1, Fl(m1.y + Nudge))
                 ELSE m1
       IN  SetVY(m2, 0)
  ELSE me

\* this.platformersToCheckCollision.forEach(...) of Platformer.doGravity:
\* the candidates cs[i..] are examined in order; r is the reference of me
RECURSIVE ResolveAll(_, _, _, _, _)
ResolveAll(me, r, o, cs, i) ==
  IF i > Len(cs) THEN me
  ELSE ResolveAll(ResolveY(me, IF cs[i] = r THEN me ELSE o[cs[i]], cs[i] = r),
                  r, o, cs, i + 1)

\* the refresh of the candidate set at the start of doGravity, moveX, moveY
RefreshCandidates(me, o, sp) ==
  IF me.checkAllPlatformers
  THEN [me EXCEPT !.platformersToCheckCollision =
                     GetSpritesByType(o, sp, "Platformer")]
  ELSE me

\* Platformer.setPlatformerSpritesToCheckCollisionWith
SetPlatformerSpritesToCheckCollisionWith(p, val) ==
  [p EXCEPT !.platformersToCheckCollision = val]

\* Platformer.doGravity of object r up to the end of the forEach
Resolved(o, sp, r) ==
  LET m0 == RefreshCandidates(o[r], o, sp)
      m1 == [m0 EXCEPT !.hasPlatformerBelow = FALSE]
      m2 == SetY(m1, Fl(m1.y + m1.vy))
  IN  ResolveAll(m2, r, o, m2.platformersToCheckCollision, 1)

\* a doGravity that keeps the hasPlatformerBelow of the call before
DoGravityOf_NoReset(o, sp, r) ==
  LET m0 == RefreshCandidates(o[r], o, sp)
      m2 == SetY(m0, Fl(m0.y + m0.vy))
      m3 == ResolveAll(m2, r, o, m2.platformersToCheckCollision, 1)
  IN  IF ~m3.hasPlatformerBelow
      THEN SetVY(m3, Fl(m3.vy + m3.gravityAcc))
      ELSE m3

\* Platformer.doGravity of object r; the result is the new object
DoGravityOf(o, sp, r) ==
  LET m3 == Resolved(o, sp, r)
  IN  IF ~m3.hasPlatformerBelow
      THEN SetVY(m3, Fl(m3.vy + m3.gravityAcc))
      ELSE m3

\* the candidates of me (object r) that it is touching, other than itself:
\* touchingPlatformers of Platformer.moveX and Platformer.moveY
TouchingPlatformers(me, r, o) ==
  SelectSeq(me.platformersToCheckCollision,
            LAMBDA s : Touching(me, IF s = r THEN me ELSE o[s]) /\ r # s)

\* touchingPlatformers.forEach(...) of Platformer.moveX
RECURSIVE SnapAllX(_, _, _, _, _)
SnapAllX(me, o, ts, x, i) ==
  IF i > Len(ts) THEN me
  ELSE SnapAllX(IF x > 0 THEN SetX(me, Fl(o[ts[i]].x - me.width))
                         ELSE SetX(me, Fl(o[ts[i]].x + o[ts[i]].width)),
                o, ts, x, i + 1)

\* touchingPlatformers.forEach(...) of Platformer.moveY
RECURSIVE SnapAllY(_, _, _, _, _)
SnapAllY(me, o, ts, y, i) ==
  IF i > Len(ts) THEN me
  ELSE SnapAllY(IF y > 0 THEN SetY(me, Fl(o[ts[i]].y - me.height))
                         ELSE SetY(me, Fl(o[ts[i]].y + o[ts[i]].height)),
                o, ts, y, i + 1)

\* a moveX that stops the Platformer when it hits something
MoveXOf_Stopping(o, sp, r, x) ==
  LET m0 == RefreshCandidates(o[r], o, sp)
      m1 == SetX(m0, Fl(m0.x + x))
      ts == TouchingPlatformers(m1, r, o)
      m2 == SnapAllX(m1, o, ts, x, 1)
  IN  IF Len(ts) > 0 THEN [m2 EXCEPT !.vx = 0] ELSE m2

\* Platformer.moveX of object r; the result is the new object
MoveXOf(o, sp, r, x) ==
  LET m0 == RefreshCandidates(o[r], o, sp)
      m1 == SetX(m0, Fl(m0.x + x))
  IN  SnapAllX(m1, o, TouchingPlatformers(m1, r, o), x, 1)

\* Platformer.moveY of object r; the result is the new object
MoveYOf(o, sp, r, y) ==
  LET m0 == RefreshCandidates(o[r], o, sp)
      m1 == SetY(m0, Fl(m0.y + y))
  IN  SnapAllY(m1, o, TouchingPlatformers(m1, r, o), y, 1)

\* the filter of the four probes of object r, which stands as moved
Filtered(o, sp, r, moved) ==
  SelectSeq(sp, LAMBDA s :
    Touching(moved, IF s = r THEN moved ELSE o[s]) /\ r # s)

\* Collision.getSpriteBelowSelf of object r: self is moved down one unit,
\* the registry is filtered, self is moved back
GetSpriteBelowSelf(o, sp, r) ==
  LET moved == SetY(o[r], Fl(o[r].y + ProbeOffset))
  IN  [ me |-> SetY(moved, Fl(moved.y - ProbeOffset)),
        result |-> Filtered(o, sp, r, moved) ]

\* Collision.getSpriteAboveSelf
GetSpriteAboveSelf(o, sp, r) ==
  LET moved == SetY(o[r], Fl(o[r].y - ProbeOffset))
  IN  [ me |-> SetY(moved, Fl(moved.y + ProbeOffset)),
        result |-> Filtered(o, sp, r, moved) ]

\* Collision.getSpriteLeftSelf
GetSpriteLeftSelf(o, sp, r) ==
  LET moved == SetX(o[r], Fl(o[r].x - ProbeOffset))
  IN  [ me |-> SetX(moved, Fl(moved.x + ProbeOffset)),
        result |-> Filtered(o, sp, r, moved) ]

\* Collision.getSpriteRightSelf
GetSpriteRightSelf(o, sp, r) ==
  LET moved == SetX(o[r], Fl(o[r].x + ProbeOffset))
  IN  [ me |-> SetX(moved, Fl(moved.x - ProbeOffset)),
        result |-> Filtered(o, sp, r, moved) ]

\* Platformer.doJump of object r
DoJumpOf(o, sp, r, jumpHeight) ==
  LET probe == GetSpriteBelowSelf(o, sp, r)
  IN  IF Len(probe.result) > 0
      THEN SetVY(probe.me, -jumpHeight)
      ELSE probe.me


NoObjs == <<>>
NoCall == [op |-> "none", self |-> "", other |-> "", arg |-> 0, pre |-> <<>>,
           result |-> <<>>, prev |-> [tag |-> "none", arg |-> ""]]

InitEngine ==
  /\ engine = EngineConstructor(0)
  /\ wired = FALSE
  /\ assetsToLoad = 0
  /\ rafPending = 0
  /\ now = 0
  /\ frame = NoFrame
  /\ initCalls = 0
  /\ objs = NoObjs
  /\ sprites = <<>>
  /\ particles = <<>>
  /\ call = NoCall

NextEngine ==
  \/ \E tpsv \in TpsValues, nLoad \in 0..1, dt \in Deltas, in \in HostInputs :
       EngineInit(tpsv, nLoad, dt, in)
  \/ \E dt \in Deltas, in \in HostInputs : Frame(dt, in)
  \/ Stop
  \/ \E dt \in Deltas, in \in HostInputs : Start(dt, in)
  \/ \E b \in BOOLEAN : SetEnableFrameSkipping(b)
  \/ AssetLoaded
  \/ PerformanceTracker

SpecEngine == InitEngine /\ [][NextEngine]_vars

\* Engine.setIdealTps
SetIdealTps(v) ==
  /\ engine.idealTps # v
  /\ engine' = [engine EXCEPT !.idealTps = v]
  /\ frame' = NoFrame
  /\ UNCHANGED <<wired, assetsToLoad, rafPending, now, initCalls, gameVars>>

\* the engine with a host that also changes the tick rate; setIdealTps
\* writes idealTps only, a field that no other handler reads
NextTps ==
  \/ NextEngine
  \/ \E v \in TpsValues : SetIdealTps(v)

SpecTps == InitEngine /\ [][NextTps]_vars

\* the engine with a host whose callbacks may raise errors
NextThrow ==
  \/ \E tpsv \in TpsValues, nLoad \in 0..1, dt \in Deltas, in \in ThrowingInputs :
       EngineInit(tpsv, nLoad, dt, in)
  \/ \E dt \in Deltas, in \in ThrowingInputs : Frame(dt, in)
  \/ Stop
  \/ \E dt \in Deltas, in \in ThrowingInputs : Start(dt, in)
  \/ AssetLoaded

SpecThrow == InitEngine /\ [][NextThrow]_vars

(***************************************************************************)
(* Scenes and the calls made on them                                        *)
(***************************************************************************)
\* the calls stay within MaxRise above and MaxY below the origin
MaxRise == 300
MaxY == 1000

Self == "self"
Other == "other"

\* where the second object may stand, relative to self at (0, 0)
OffsetsX == {-100, -50, 0, 100}
OffsetsY == {-100, 0, 50, 100, 150, 200}
Registries == {<<Self, Other>>, <<Other, Self>>, <<Self>>}
JumpHeights == {25, 100}

\* a scene: the second object is constructed and registered, then self
Scene(other, sp) ==
  Self :> NewPlatformer(0, 0, 100, 100,
                        GetSpritesByType(Other :> other, SelectSeq(sp, LAMBDA r : r # Self),
                                         "Platformer"))
    @@ Other :> other

EngineIdle ==
  /\ engine = EngineConstructor(0)
  /\ wired = FALSE
  /\ assetsToLoad = 0
  /\ rafPending = 0
  /\ now = 0
  /\ frame = NoFrame
  /\ initCalls = 0

\* what is remembered of the call before: "jumped" after a doJump() that
\* took off from rest (vy = 0 on a Platformer), "narrowed" after
\* setPlatformerSpritesToCheckCollisionWith(), "deleted" and the id after a
\* deleteSpriteById() that took a sprite out of the registry
NothingBefore == [tag |-> "none", arg |-> ""]
Before ==
  IF /\ call.op = "doJump"
     /\ Len(call.result) > 0
     /\ call.pre.vy = 0
     /\ call.pre.hasPlatformerBelow
  THEN [tag |-> "jumped", arg |-> ""]
  ELSE IF call.op = "setPlatformerSpritesToCheckCollisionWith"
  THEN [tag |-> "narrowed", arg |-> ""]
  ELSE IF call.op = "deleteSpriteById" /\ Len(sprites) < Len(call.pre.sprites)
  THEN [tag |-> "deleted", arg |-> call.arg]
  ELSE NothingBefore

Called(op, r, other, arg, result) ==
  [ op |-> op, self |-> r, other |-> other, arg |-> arg, pre |-> objs[r],
    result |-> result, prev |-> Before ]

\* a.getCollision().touching(b)
TouchingCall(a, b) ==
  /\ call' = Called("touching", a, b, 0, Touching(objs[a], objs[b]))
  /\ UNCHANGED <<objs, sprites, particles, engineVars>>

\* r.doGravity()
DoGravity(r) ==
  /\ objs[r].kind = "Platformer"
  /\ LET me == DoGravityOf(objs, sprites, r)
         m3 == Resolved(objs, sprites, r)
     IN  /\ me.y >= -MaxRise
         /\ me.y <= MaxY
         /\ objs' = [objs EXCEPT ![r] = me]
         /\ call' = Called("doGravity", r, "", 0,
                           [ vy |-> m3.vy,
                             hasPlatformerBelow |-> m3.hasPlatformerBelow ])
  /\ UNCHANGED <<sprites, particles, engineVars>>

\* r.doJump(jumpHeight)
DoJump(r, jumpHeight) ==
  /\ objs[r].kind = "Platformer"
  /\ objs' = [objs EXCEPT ![r] = DoJumpOf(objs, sprites, r, jumpHeight)]
  /\ call' = Called("doJump", r, "", jumpHeight,
                    GetSpriteBelowSelf(objs, sprites, r).result)
  /\ UNCHANGED <<sprites, particles, engineVars>>

\* the candidate sets a host narrows to
CandidateSets == {<<>>, <<Other>>}

\* r.setPlatformerSpritesToCheckCollisionWith(val)
SetPlatformerSpritesToCheckCollisionWithCall(r, val) ==
  /\ objs[r].kind = "Platformer"
  /\ objs' = [objs EXCEPT ![r] = SetPlatformerSpritesToCheckCollisionWith(objs[r], val)]
  /\ call' = Called("setPlatformerSpritesToCheckCollisionWith", r, "", 0, val)
  /\ UNCHANGED <<sprites, particles, engineVars>>

InitPlat ==
  /\ EngineIdle
  /\ \E dx \in OffsetsX, dy \in OffsetsY, sp \in Registries :
       /\ sprites = sp
       /\ \/ objs = Scene(NewSprite(dx, dy, 100, 100), sp)
          \/ objs = Scene(NewPlatformer(dx, dy, 100, 100, <<>>), sp)
  /\ particles = <<>>
  /\ call = NoCall

NextPlat ==
  \/ \E a, b \in {Self, Other} : a # b /\ TouchingCall(a, b)
  \/ DoGravity(Self)
  \/ \E h \in JumpHeights : DoJump(Self, h)
  \/ \E val \in CandidateSets : SetPlatformerSpritesToCheckCollisionWithCall(Self, val)

SpecPlat == InitPlat /\ [][NextPlat]_vars

\* the probes of self among two other sprites; self stands at the origin
\* or far from it, where the numbers lie two units apart
Third == "third"
Far == Pow2(SignificandBits) - 49
ProbeOrigins == {0, Far}
ProbeOffsets == {-100, 0, 100}
ProbeRegistries ==
  {<<Self, Other, Third>>, <<Third, Other, Self>>, <<Other, Self>>, <<Third>>}

\* r.getCollision().getSpriteAboveSelf()
GetSpriteAboveSelfCall(r) ==
  LET probe == GetSpriteAboveSelf(objs, sprites, r)
  IN  /\ objs' = [objs EXCEPT ![r] = probe.me]
      /\ call' = Called("getSpriteAboveSelf", r, "", 0, probe.result)
      /\ UNCHANGED <<sprites, particles, engineVars>>

\* r.getCollision().getSpriteBelowSelf()
GetSpriteBelowSelfCall(r) ==
  LET probe == GetSpriteBelowSelf(objs, sprites, r)
  IN  /\ objs' = [objs EXCEPT ![r] = probe.me]
      /\ call' = Called("getSpriteBelowSelf", r, "", 0, probe.result)
      /\ UNCHANGED <<sprites, particles, engineVars>>

\* r.getCollision().getSpriteLeftSelf()
GetSpriteLeftSelfCall(r) ==
  LET probe == GetSpriteLeftSelf(objs, sprites, r)
  IN  /\ objs' = [objs EXCEPT ![r] = probe.me]
      /\ call' = Called("getSpriteLeftSelf", r, "", 0, probe.result)
      /\ UNCHANGED <<sprites, particles, engineVars>>

\* r.getCollision().getSpriteRightSelf()
GetSpriteRightSelfCall(r) ==
  LET probe == GetSpriteRightSelf(objs, sprites, r)
  IN  /\ objs' = [objs EXCEPT ![r] = probe.me]
      /\ call' = Called("getSpriteRightSelf", r, "", 0, probe.result)
      /\ UNCHANGED <<sprites, particles, engineVars>>

InitProbe ==
  /\ EngineIdle
  /\ \E sx, sy \in ProbeOrigins, dx, dy, ex, ey \in ProbeOffsets,
        sp \in ProbeRegistries :
       /\ sprites = sp
       /\ objs = (Self :> NewSprite(sx, sy, 100, 100))
                   @@ (Other :> NewSprite(Fl(sx + dx), Fl(sy + dy), 100, 100))
                   @@ (Third :> NewSprite(Fl(sx + ex), Fl(sy + ey), 100, 100))
  /\ particles = <<>>
  /\ call = NoCall

NextProbe ==
  \/ GetSpriteAboveSelfCall(Self)
  \/ GetSpriteBelowSelfCall(Self)
  \/ GetSpriteLeftSelfCall(Self)
  \/ GetSpriteRightSelfCall(Self)

SpecProbe == InitProbe /\ [][NextProbe]_vars

(***************************************************************************)
(* The registry: objects are constructed, registered, renamed and deleted   *)
(***************************************************************************)
\* the host holds at most MaxObjects objects
MaxObjects == 3
Refs == <<"a", "b", "c", "d", "e">>
Ids == {"p", "q"}
StageLevels == {1}
SpriteTypes == {"Sprite", "Platformer"}
ParticleTypes == {"Particle"}

\* the reference of the next object constructed
NextRef == Refs[Cardinality(DOMAIN objs) + 1]

IsSprite(r) == InstanceOf(objs[r].kind, "Sprite")

CalledGame(op, r, arg, result) ==
  [ op |-> op, self |-> r, other |-> "", arg |-> arg,
    pre |-> [ sprites |-> sprites, particles |-> particles,
              id |-> IF r \in DOMAIN objs THEN objs[r].id ELSE "" ],
    result |-> result, prev |-> Before ]

\* the same for the calls whose state before is not looked at
CalledPlain(op, r, arg, result) ==
  [ op |-> op, self |-> r, other |-> "", arg |-> arg, pre |-> <<>>,
    result |-> result, prev |-> Before ]

\* new Sprite(id, ...) with the stage level given: throws, or yields an
\* object that is not registered yet
ConstructSprite(id, stageLevel) ==
  IF IdTaken(objs, sprites, id)
  THEN /\ call' = CalledGame("newSprite", "", id, "error")
       /\ UNCHANGED <<objs, sprites, particles, engineVars>>
  ELSE /\ Cardinality(DOMAIN objs) < MaxObjects
       /\ objs' = objs @@ (NextRef :> WithId(NewSprite(0, 0, 100, 100), id, stageLevel))
       /\ call' = CalledGame("newSprite", NextRef, id, "ok")
       /\ UNCHANGED <<sprites, particles, engineVars>>

\* new Particle(id, ...)
ConstructParticle(id) ==
  IF IdTaken(objs, sprites, id)
  THEN /\ call' = CalledGame("newParticle", "", id, "error")
       /\ UNCHANGED <<objs, sprites, particles, engineVars>>
  ELSE /\ Cardinality(DOMAIN objs) < MaxObjects
       /\ objs' = objs @@ (NextRef :> NewParticle(id, 0, 0, 100, 100))
       /\ call' = CalledGame("newParticle", NextRef, id, "ok")
       /\ UNCHANGED <<sprites, particles, engineVars>>

\* getGame().addNewSprite(r)
AddNewSpriteCall(r) ==
  /\ IsSprite(r)
  /\ sprites' = AddNewSprite(objs, sprites, <<r>>)
  /\ call' = CalledGame("addNewSprite", "", <<r>>, "ok")
  /\ UNCHANGED <<objs, particles, engineVars>>

\* getGame().addNewSprite([r1, r2])
AddNewSpritesCall(added) ==
  /\ \A i \in DOMAIN added : IsSprite(added[i])
  /\ sprites' = AddNewSprite(objs, sprites, added)
  /\ call' = CalledGame("addNewSprite", "", added, "ok")
  /\ UNCHANGED <<objs, particles, engineVars>>

\* getGame().addParticle(r)
AddParticleCall(r) ==
  /\ objs[r].kind = "Particle"
  /\ particles' = AddParticle(particles, <<r>>)
  /\ call' = CalledGame("addParticle", "", <<r>>, "ok")
  /\ UNCHANGED <<objs, sprites, engineVars>>

\* r.setId(id): throws, or stores the id
SetIdCall(r, id) ==
  IF IdTaken(objs, sprites, id)
  THEN /\ call' = CalledGame("setId", r, id, "error")
       /\ UNCHANGED <<objs, sprites, particles, engineVars>>
  ELSE /\ objs' = [objs EXCEPT ![r] = SetId(objs[r], id)]
       /\ call' = CalledGame("setId", r, id, "ok")
       /\ UNCHANGED <<sprites, particles, engineVars>>

\* r.setStageLevel(stageLevel)
SetStageLevelCall(r, stageLevel) ==
  /\ IsSprite(r)
  /\ objs' = [objs EXCEPT ![r] = SetStageLevel(objs[r], stageLevel)]
  /\ call' = CalledPlain("setStageLevel", r, stageLevel, "ok")
  /\ UNCHANGED <<sprites, particles, engineVars>>

\* getGame().deleteSpriteById(id)
DeleteSpriteByIdCall(id) ==
  /\ sprites' = DeleteSpriteById(objs, sprites, id)
  /\ call' = CalledGame("deleteSpriteById", "", id, "ok")
  /\ UNCHANGED <<objs, particles, engineVars>>

\* getGame().deleteParticleById(id)
DeleteParticleByIdCall(id) ==
  /\ particles' = DeleteParticleById(objs, particles, id)
  /\ call' = CalledGame("deleteParticleById", "", id, "ok")
  /\ UNCHANGED <<objs, sprites, engineVars>>

\* getGame().deleteSpritesByType(type)
DeleteSpritesByTypeCall(type) ==
  /\ sprites' = DeleteSpritesByType(objs, sprites, type)
  /\ call' = CalledGame("deleteSpritesByType", "", type, "ok")
  /\ UNCHANGED <<objs, particles, engineVars>>

\* getGame().deleteParticlesByType(type)
DeleteParticlesByTypeCall(type) ==
  /\ particles' = DeleteParticlesByType(objs, particles, type)
  /\ call' = CalledGame("deleteParticlesByType", "", type, "ok")
  /\ UNCHANGED <<objs, sprites, engineVars>>

\* getGame().getSpriteById(id)
GetSpriteByIdCall(id) ==
  /\ call' = CalledGame("getSpriteById", "", id, GetSpriteById(objs, sprites, id))
  /\ UNCHANGED <<objs, sprites, particles, engineVars>>

\* getGame().getParticleById(id)
GetParticleByIdCall(id) ==
  /\ call' = CalledGame("getParticleById", "", id,
                         GetParticleById(objs, particles, id))
  /\ UNCHANGED <<objs, sprites, particles, engineVars>>

\* the Game as constructed, no object made yet
InitGame ==
  /\ EngineIdle
  /\ objs = NoObjs
  /\ sprites = <<>>
  /\ particles = <<>>
  /\ call = NoCall

NextGame ==
  \/ \E id \in Ids, l \in StageLevels : ConstructSprite(id, l)
  \/ \E id \in Ids : ConstructParticle(id)
  \/ \E r \in DOMAIN objs : AddNewSpriteCall(r)
  \/ \E r \in DOMAIN objs : AddParticleCall(r)
  \/ \E r \in DOMAIN objs, id \in Ids : SetIdCall(r, id)
  \/ \E id \in Ids : DeleteSpriteByIdCall(id)
  \/ \E id \in Ids : DeleteParticleByIdCall(id)
  \/ \E type \in SpriteTypes : DeleteSpritesByTypeCall(type)
  \/ \E type \in ParticleTypes : DeleteParticlesByTypeCall(type)
  \/ \E id \in Ids : GetSpriteByIdCall(id)
  \/ \E id \in Ids : GetParticleByIdCall(id)

SpecGame == InitGame /\ [][NextGame]_vars

\* the draw order: sprites only, each constructed under an id of its own,
\* on three stage levels
DrawLevels == {1, 2, 3}

NextStage ==
  \/ \E l \in DrawLevels : ConstructSprite(NextRef, l)
  \/ \E r \in DOMAIN objs : AddNewSpriteCall(r)
  \/ \E r1, r2 \in DOMAIN objs : AddNewSpritesCall(<<r1, r2>>)
  \/ \E r \in DOMAIN objs, l \in DrawLevels : SetStageLevelCall(r, l)
  \/ \E r \in DOMAIN objs : DeleteSpriteByIdCall(r)

SpecStage == InitGame /\ [][NextStage]_vars

\* the velocity calls of one Platformer
SpeedInputs == {-5000, -25, 0, 24, 26}
SpeedSteps == {400}
MaxInputs == {Null, <<1000>>, <<20>>}
Frictions == {0, 50, 90}
\* the vertical calls run the same code on fewer inputs
SpeedInputsY == {-25, 26}
MaxInputsY == {Null, <<20>>}
FrictionsY == {50}
\* the host adds to the velocity only up to this speed
MaxSpeed == 1200

\* r.setVX(val)
SetVXCall(r, val) ==
  /\ objs' = [objs EXCEPT ![r] = SetVX(objs[r], val)]
  /\ call' = Called("setVX", r, "", val, <<>>)
  /\ UNCHANGED <<sprites, particles, engineVars>>

\* r.setVY(val)
SetVYCall(r, val) ==
  /\ objs' = [objs EXCEPT ![r] = SetVY(objs[r], val)]
  /\ call' = Called("setVY", r, "", val, <<>>)
  /\ UNCHANGED <<sprites, particles, engineVars>>

\* r.setMaxVX(max)
SetMaxVXCall(r, max) ==
  /\ objs' = [objs EXCEPT ![r] = SetMaxVX(objs[r], max)]
  /\ call' = Called("setMaxVX", r, "", 0, max)
  /\ UNCHANGED <<sprites, particles, engineVars>>

\* r.setMaxVY(max)
SetMaxVYCall(r, max) ==
  /\ objs' = [objs EXCEPT ![r] = SetMaxVY(objs[r], max)]
  /\ call' = Called("setMaxVY", r, "", 0, max)
  /\ UNCHANGED <<sprites, particles, engineVars>>

\* r.addFrictionX(friction)
AddFrictionXCall(r, friction) ==
  /\ objs' = [objs EXCEPT ![r] = AddFrictionX(objs[r], friction)]
  /\ call' = Called("addFrictionX", r, "", friction, <<>>)
  /\ UNCHANGED <<sprites, particles, engineVars>>

\* r.addFrictionY(friction)
AddFrictionYCall(r, friction) ==
  /\ objs' = [objs EXCEPT ![r] = AddFrictionY(objs[r], friction)]
  /\ call' = Called("addFrictionY", r, "", friction, <<>>)
  /\ UNCHANGED <<sprites, particles, engineVars>>

\* one registered Platformer, as constructed
InitVel ==
  /\ EngineIdle
  /\ sprites = <<Self>>
  /\ objs = (Self :> NewPlatformer(0, 0, 100, 100, <<>>))
  /\ particles = <<>>
  /\ call = NoCall

\* the host sets a velocity outright or as the present one plus a step
NextVel ==
  \/ \E v \in SpeedInputs : SetVXCall(Self, v)
  \/ \E d \in SpeedSteps :
       /\ objs[Self].vx >= 0
       /\ objs[Self].vx + d <= MaxSpeed
       /\ SetVXCall(Self, objs[Self].vx + d)
  \/ \E v \in SpeedInputsY : SetVYCall(Self, v)
  \/ \E max \in MaxInputs : SetMaxVXCall(Self, max)
  \/ \E max \in MaxInputsY : SetMaxVYCall(Self, max)
  \/ \E f \in Frictions : AddFrictionXCall(Self, f)
  \/ \E f \in FrictionsY : AddFrictionYCall(Self, f)

SpecVel == InitVel /\ [][NextVel]_vars

\* a Platformer with vy = 0 and the default gravityAcc above a static
\* platform that overlaps it horizontally
DropHeights == {0, 40}
PlatformYs == {100, 150, 300, 660}
PlatformHeights == {50, 100}

InitDrop ==
  /\ EngineIdle
  /\ \E y0 \in DropHeights, py \in PlatformYs, ph \in PlatformHeights,
        px \in {-50, 0, 50}, sp \in {<<Self, Other>>, <<Other, Self>>} :
       /\ y0 + 100 <= py
       /\ sprites = sp
       /\ objs = [ Scene(NewPlatformer(px, py, 100, ph, <<>>), sp)
                     EXCEPT ![Self].y = y0 ]
  /\ particles = <<>>
  /\ call = NoCall

NextDrop == DoGravity(Self)

\* doGravity() is called once per simulation step and nothing else changes
SpecDrop == InitDrop /\ [][NextDrop]_vars

(***************************************************************************)
(* The camera and the camera stage of a simulation step                    *)
(***************************************************************************)
Cam == "camera"
Canvas == "canvas"

\* Camera.constructor; toFollow is Null or <<sprite>>
NewCamera == [kind |-> "Camera", x |-> 0, y |-> 0, toFollow |-> Null]

\* Camera.setToFollow
SetToFollow(c, val) == [c EXCEPT !.toFollow = val]

\* Camera.setX, Camera.setY
CameraSetX(c, val) == [c EXCEPT !.x = ToFixed1(val)]
CameraSetY(c, val) == [c EXCEPT !.y = ToFixed1(val)]

\* Camera.goTo
GoTo(c, valx, valy) == CameraSetY(CameraSetX(c, valx), valy)

\* Render.getWidth, Render.getHeight: the size of the canvas
GetWidth(o) == o[Canvas].width
GetHeight(o) == o[Canvas].height

\* a camera stage that puts the camera's corner on the followed sprite
CameraFollow_Corner(o) ==
  IF o[Cam].toFollow # Null
  THEN LET toFollow == o[o[Cam].toFollow[1]]
       IN  [o EXCEPT ![Cam] = GoTo(@, toFollow.x, toFollow.y)]
  ELSE o

\* the camera stage of the update closure of Engine.init
CameraFollow(o) ==
  IF o[Cam].toFollow # Null
  THEN LET toFollow == o[o[Cam].toFollow[1]]
           c1 == CameraSetX(o[Cam], toFollow.x - GetWidth(o) \div 2)
           c2 == CameraSetY(c1, toFollow.y - GetHeight(o) \div 2)
       IN  [o EXCEPT ![Cam] = c2]
  ELSE o

\* sprite.update() of a host class that moves the sprite by move; the
\* update() of GameObject itself does nothing (move = <<0, 0>>)
SpriteUpdate(p, move) == SetY(SetX(p, p.x + move[1]), p.y + move[2])

\* particle.update() of a host class that lets the particle sink by drift
ParticleUpdate(p, drift) == SetY(p, p.y + drift)

\* A step in progress is a record u: u.o are the objects and u.order the
\* callbacks invoked so far, each as <<kind, object>>.

\* getGame().getParticles().forEach((particle) => particle.update())
RECURSIVE UpdateParticles(_, _, _, _)
UpdateParticles(u, pa, drift, i) ==
  IF i > Len(pa) THEN u
  ELSE UpdateParticles(
         [ o |-> [u.o EXCEPT ![pa[i]] = ParticleUpdate(@, drift)],
           order |-> Append(u.order, <<"particle", pa[i]>>) ],
         pa, drift, i + 1)

\* getGame().getSprites().forEach((sprite) => sprite.update())
RECURSIVE UpdateSprites(_, _, _, _)
UpdateSprites(u, sp, moves, i) ==
  IF i > Len(sp) THEN u
  ELSE UpdateSprites(
         [ o |-> [u.o EXCEPT ![sp[i]] = SpriteUpdate(@, moves[sp[i]])],
           order |-> Append(u.order, <<"sprite", sp[i]>>) ],
         sp, moves, i + 1)

\* the camera stage as a stage of the step
CameraStage(u) ==
  [ o |-> CameraFollow(u.o), order |-> Append(u.order, <<"camera", "">>) ]

\* engineSettings.update() of a host that moves the first sprite sideways
HostUpdate(o, sp, push) ==
  IF Len(sp) > 0 THEN [o EXCEPT ![sp[1]] = SetX(@, @.x + push)] ELSE o

\* engineSettings.update() as a stage of the step
HostStage(u, sp, push) ==
  [ o |-> HostUpdate(u.o, sp, push), order |-> Append(u.order, <<"host", "">>) ]

\* an update closure that calls the host's update before the objects'
UpdateClosure_HostFirst(o, pa, sp, in) ==
  LET u0 == HostStage([o |-> o, order |-> <<>>], sp, in.push)
      u1 == UpdateParticles(u0, pa, in.drift, 1)
      u2 == UpdateSprites(u1, sp, in.moves, 1)
      u3 == CameraStage(u2)
  IN  [ afterSprites |-> u2.o, afterCamera |-> u3.o,
        result |-> u3.o, order |-> u3.order ]

\* the update closure of Engine.init: the particles, the sprites, the
\* camera, the host
UpdateClosure(o, pa, sp, in) ==
  LET u1 == UpdateParticles([o |-> o, order |-> <<>>], pa, in.drift, 1)
      u2 == UpdateSprites(u1, sp, in.moves, 1)
      u3 == CameraStage(u2)
      u4 == HostStage(u3, sp, in.push)
  IN  [ afterSprites |-> u2.o, afterCamera |-> u3.o,
        result |-> u4.o, order |-> u4.order ]

MaxX == 300
Followables == {Self, Other}
CanvasSizes == {<<800, 500>>, <<500, 800>>}
Moves == {<<0, 0>>, <<125, -75>>}
Pushes == {0, 50}
CameraTargets == {Null, <<Self>>, <<Other>>}
CameraPlaces == {<<-125, 75>>}
StepInputs == [moves : [Followables -> Moves], push : Pushes, drift : {0}]

\* where the followed sprite stands, if the camera follows one
FollowedPlace(o) ==
  IF o[Cam].toFollow = Null THEN Null
  ELSE <<o[o[Cam].toFollow[1]].x, o[o[Cam].toFollow[1]].y>>

\* one simulation step
UpdateStep(in) ==
  LET u == UpdateClosure(objs, particles, sprites, in)
  IN  /\ \A r \in Followables :
            Abs(u.result[r].x) <= MaxX /\ Abs(u.result[r].y) <= MaxX
      /\ objs' = u.result
      /\ call' = Called("update", Cam, "",
                        [ followed |-> FollowedPlace(u.afterSprites),
                          camera |-> u.afterCamera[Cam] ], <<>>)
      /\ UNCHANGED <<sprites, particles, engineVars>>

\* getCamera().setToFollow(val)
SetToFollowCall(val) ==
  /\ objs[Cam].toFollow # val
  /\ objs' = [objs EXCEPT ![Cam] = SetToFollow(@, val)]
  /\ call' = Called("setToFollow", Cam, "", val, <<>>)
  /\ UNCHANGED <<sprites, particles, engineVars>>

\* getCamera().goTo(place[1], place[2])
GoToCall(place) ==
  /\ objs' = [objs EXCEPT ![Cam] = GoTo(@, place[1], place[2])]
  /\ call' = Called("goTo", Cam, "", place, <<>>)
  /\ UNCHANGED <<sprites, particles, engineVars>>

InitCamera ==
  /\ EngineIdle
  /\ sprites \in {<<Self, Other>>, <<Self>>}
  /\ \E size \in CanvasSizes :
       objs = (Self :> NewSprite(0, 0, 100, 100))
              @@ (Other :> NewSprite(300, 225, 100, 100))
              @@ (Cam :> NewCamera)
              @@ (Canvas :> [kind |-> "Canvas", width |-> size[1],
                                                height |-> size[2]])
  /\ particles = <<>>
  /\ call = NoCall

NextCamera ==
  \/ \E in \in StepInputs : UpdateStep(in)
  \/ \E val \in CameraTargets : SetToFollowCall(val)
  \/ \E place \in CameraPlaces : GoToCall(place)

SpecCamera == InitCamera /\ [][NextCamera]_vars

(***************************************************************************)
(* The body of the catch-up loop, step by step: the frame driver has added *)
(* the time of a frame to accumulatedTime and runs the loop                *)
(***************************************************************************)
Spark == "spark"
Dust == "dust"
StepBudgets == {2, 5}
Drifts == {0, 25}
LoopInputs == [moves : [Followables -> Moves], push : Pushes, drift : Drifts]

\* one pass through the body of the loop; the ghost keeps the order of the
\* callbacks and the tick counter of before
LoopBody(in) ==
  /\ LoopTest(engine, 0)
  /\ LET u == UpdateClosure(objs, particles, sprites, in)
     IN  /\ \A r \in Followables :
               Abs(u.result[r].x) <= MaxX /\ Abs(u.result[r].y) <= MaxX
         /\ objs' = u.result
         /\ call' = Called("step", Cam, "",
                           [ order |-> u.order,
                             tpsBefore |-> engine.tpsCounter ], <<>>)
  /\ engine' = [engine EXCEPT !.tpsCounter = @ + 1,
                              !.accumulatedTime = @ - engine.minFrameTime]
  /\ UNCHANGED <<wired, assetsToLoad, rafPending, now, frame, initCalls,
                 sprites, particles>>

InitStep ==
  /\ \E budget \in StepBudgets :
       engine = [EngineConstructor(0) EXCEPT
                   !.idealTps = 500, !.minFrameTime = MinFrameTimeOf(500),
                   !.hasInited = TRUE, !.lastUpdateTime = budget,
                   !.accumulatedTime = budget]
  /\ wired = TRUE
  /\ assetsToLoad = 0
  /\ rafPending = 0
  /\ now \in StepBudgets /\ now = engine.lastUpdateTime
  /\ frame = NoFrame
  /\ initCalls = 1
  /\ sprites \in {<<Self, Other>>, <<Other, Self>>, <<Self>>}
  /\ particles \in {<<>>, <<Spark>>, <<Dust, Spark>>}
  /\ \E target \in CameraTargets :
       objs = (Self :> NewSprite(0, 0, 100, 100))
              @@ (Other :> NewSprite(300, 225, 100, 100))
              @@ (Spark :> NewParticle(Spark, 0, 0, 10, 10))
              @@ (Dust :> NewParticle(Dust, 50, 0, 10, 10))
              @@ (Cam :> SetToFollow(NewCamera, target))
              @@ (Canvas :> [kind |-> "Canvas", width |-> 800, height |-> 500])
  /\ call = NoCall

NextStep == \E in \in LoopInputs : LoopBody(in)

SpecStep == InitStep /\ [][NextStep]_vars

(***************************************************************************)
(* Two runs of the engine side by side                                     *)
(*                                                                         *)
(* The first run is held by the engine variables and the Platformer Self,  *)
(* the second by the record objs[Twin] and the Platformer TwinSelf.  Both  *)
(* are fed the same host, the same asset arrivals and the same time        *)
(* between frames; their clocks differ by a constant and their performance *)
(* trackers fire independently of each other.  The host's update makes the *)
(* Platformer fall (doGravity) once per step.                              *)
(***************************************************************************)
Twin == "twin"
TwinSelf == "twinSelf"
ClockOffsets == {0, 7}

\* k steps of an update that calls r.doGravity()
RECURSIVE Fall(_, _, _)
Fall(o, r, k) ==
  IF k = 0 THEN o
  ELSE Fall([o EXCEPT ![r] = DoGravityOf(o, <<r>>, r)], r, k - 1)

\* the second run after an invocation of its frame driver at time t
TwinAfter(w, t) ==
  [ e |-> w.e, assets |-> w.assets, raf |-> w.raf, inits |-> w.inits,
    now |-> t, updates |-> w.updates ]

\* Engine.init(engineSettings) in both runs
TwinInit(tpsv, nLoad, dt, in) ==
  /\ ~wired
  /\ now + dt <= MaxTime
  /\ LET b  == objs[Twin]
         e2 == [engine EXCEPT !.idealTps = tpsv,
                              !.minFrameTime = MinFrameTimeOf(tpsv),
                              !.hasLoadedAssets = (nLoad # 0)]
         f2 == [b.e EXCEPT !.idealTps = tpsv,
                           !.minFrameTime = MinFrameTimeOf(tpsv),
                           !.hasLoadedAssets = (nLoad # 0)]
         w  == StartLoop(World(e2, nLoad, rafPending, initCalls), now + dt, in)
         v  == StartLoop(World(f2, nLoad, b.raf, b.inits), b.now + dt, in)
     IN  /\ Commit(w)
         /\ frame' = Observed("init", e2, nLoad, rafPending, 0, w, in)
         /\ objs' = [Fall(Fall(objs, Self, w.updates), TwinSelf, v.updates)
                       EXCEPT ![Twin] = TwinAfter(v, b.now + dt)]
  /\ wired' = TRUE
  /\ now' = now + dt
  /\ UNCHANGED <<sprites, particles, call>>

\* the callback requestAnimationFrame(this.startLoop) fires in both runs,
\* dt after the previous handler
TwinFrame(dt, in) ==
  /\ wired
  /\ rafPending > 0
  /\ objs[Twin].raf > 0
  /\ now + dt <= MaxTime
  /\ LET b == objs[Twin]
         w == StartLoop(World(engine, assetsToLoad, rafPending - 1, initCalls),
                        now + dt, in)
         v == StartLoop(World(b.e, b.assets, b.raf - 1, b.inits),
                        b.now + dt, in)
     IN  /\ Commit(w)
         /\ v.e.fpsCounter <= MaxFrames
         /\ frame' = Observed("raf", engine, assetsToLoad, rafPending - 1, 0, w, in)
         /\ objs' = [Fall(Fall(objs, Self, w.updates), TwinSelf, v.updates)
                       EXCEPT ![Twin] = TwinAfter(v, b.now + dt)]
  /\ now' = now + dt
  /\ UNCHANGED <<wired, sprites, particles, call>>

\* image.onload of Loader.loadImage in both runs
TwinAssetLoaded ==
  /\ wired
  /\ assetsToLoad > 0
  /\ objs[Twin].assets > 0
  /\ assetsToLoad' = assetsToLoad - 1
  /\ objs' = [objs EXCEPT ![Twin].assets = @ - 1]
  /\ UNCHANGED <<engine, wired, rafPending, now, frame, initCalls,
                 sprites, particles, call>>

\* the setInterval callback of Engine.startPerformanceTracker in the
\* second run
TwinPerformanceTracker ==
  /\ wired
  /\ objs[Twin].e.fpsCounter > 0
  /\ LET e == objs[Twin].e
     IN  objs' = [objs EXCEPT ![Twin].e =
                    [e EXCEPT !.fps = e.fpsCounter, !.tps = e.tpsCounter,
                              !.fpsCounter = 0, !.tpsCounter = 0]]
  /\ UNCHANGED <<engineVars, sprites, particles, call>>

InitTwin ==
  /\ EngineIdle
  /\ sprites = <<Self>>
  /\ \E off \in ClockOffsets :
       objs = (Self :> NewPlatformer(0, 0, 100, 100, <<>>))
              @@ (TwinSelf :> NewPlatformer(0, 0, 100, 100, <<>>))
              @@ (Twin :> [ e |-> EngineConstructor(off), assets |-> 0,
                            raf |-> 0, inits |-> 0, now |-> off,
                            updates |-> 0 ])
  /\ particles = <<>>
  /\ call = NoCall

NextTwin ==
  \/ \E tpsv \in TpsValues, nLoad \in 0..1, dt \in Deltas, in \in HostInputs :
       TwinInit(tpsv, nLoad, dt, in)
  \/ \E dt \in Deltas, in \in HostInputs : TwinFrame(dt, in)
  \/ TwinAssetLoaded
  \/ PerformanceTracker
  \/ TwinPerformanceTracker

SpecTwin == InitTwin /\ [][NextTwin]_vars

(***************************************************************************)
(* A Platformer among two others, near the origin and far from it, where   *)
(* the sums of doGravity are rounded                                       *)
(***************************************************************************)
MaxFall == 400
PileBases == {0, -4094}
PileRegistries == {<<Self, Other, Third>>, <<Third, Other, Self>>}
\* where self starts, relative to the top of the other Platformer
PileStarts == {-130, 130, 160}
\* where the third Platformer stands, relative to the other one
PileSteps == {-50, 50}
PileSpeeds == {-70, -60, 40}

\* r.doGravity(); the ghost keeps vy and hasPlatformerBelow as they are
\* at the end of the forEach
DoGravityCall(r) ==
  /\ LET me == DoGravityOf(objs, sprites, r)
         m3 == Resolved(objs, sprites, r)
     IN  /\ Abs(me.y - objs[Other].y) <= MaxFall
         /\ objs' = [objs EXCEPT ![r] = me]
         /\ call' = Called("doGravity", r, "", 0,
                           [ vy |-> m3.vy,
                             hasPlatformerBelow |-> m3.hasPlatformerBelow ])
  /\ UNCHANGED <<sprites, particles, engineVars>>

InitPile ==
  /\ EngineIdle
  /\ \E base \in PileBases, start \in PileStarts, step \in PileSteps,
        sp \in PileRegistries :
       /\ sprites = sp
       /\ objs = (Self :> NewPlatformer(0, Fl(base + start), 100, 100, <<>>))
                   @@ (Other :> NewPlatformer(0, base, 100, 100, <<>>))
                   @@ (Third :> NewPlatformer(50, Fl(base + step), 100, 100, <<>>))
  /\ particles = <<>>
  /\ call = NoCall

NextPile ==
  \/ DoGravityCall(Self)
  \/ \E v \in PileSpeeds : SetVYCall(Self, v)

SpecPile == InitPile /\ [][NextPile]_vars

(***************************************************************************)
(* A Platformer that is moved among two others standing side by side       *)
(***************************************************************************)
\* where the other Platformer stands, self standing at the origin
MovePlaces == {<<110, 0>>, <<0, 110>>}
\* where the third Platformer stands, relative to the other one
MoveSteps == {<<50, 0>>, <<0, 50>>, <<-150, 150>>}
\* how far, in hundredths, the moved Platformer strays from the origin
MaxReach == 150
Displacements == {-70, 0, 70}
MoveSpeeds == {40}

\* r.moveX(x)
MoveXCall(r, x) ==
  /\ LET me == MoveXOf(objs, sprites, r, x)
     IN  /\ Abs(me.x) <= MaxReach
         /\ objs' = [objs EXCEPT ![r] = me]
  /\ call' = Called("moveX", r, "", x, <<>>)
  /\ UNCHANGED <<sprites, particles, engineVars>>

\* r.moveY(y)
MoveYCall(r, y) ==
  /\ LET me == MoveYOf(objs, sprites, r, y)
     IN  /\ Abs(me.y) <= MaxReach
         /\ objs' = [objs EXCEPT ![r] = me]
  /\ call' = Called("moveY", r, "", y, <<>>)
  /\ UNCHANGED <<sprites, particles, engineVars>>

InitMove ==
  /\ EngineIdle
  /\ \E place \in MovePlaces, step \in MoveSteps, sp \in PileRegistries,
        v \in MoveSpeeds :
       /\ sprites = sp
       /\ objs = (Self :> SetVX(NewPlatformer(0, 0, 100, 100, <<>>), v))
                   @@ (Other :> NewPlatformer(place[1], place[2], 100, 100, <<>>))
                   @@ (Third :> NewPlatformer(place[1] + step[1],
                                              place[2] + step[2], 100, 100, <<>>))
  /\ particles = <<>>
  /\ call = NoCall

NextMove ==
  \/ \E x \in Displacements : MoveXCall(Self, x)
  \/ \E y \in Displacements : MoveYCall(Self, y)
  \/ DoGravityCall(Self) /\ Abs(objs'[Self].y) <= MaxReach

SpecMove == InitMove /\ [][NextMove]_vars

(***************************************************************************)
(* Properties of the frame driver                                           *)
(***************************************************************************)
CountOf(seq, x) == Cardinality({i \in DOMAIN seq : seq[i] = x})

\* the last handler was an invocation of the frame driver
Ran == frame.via \in {"init", "raf", "start"}
\* ... which was neither stopped nor paused for loading
Running == Ran /\ ~frame.stoppedAtEntry /\ ~frame.paused

\* C1: in every invocation of the frame driver at most maxUpdatesPerFrame (5)
\* simulation steps are executed, a step is executed only when
\* accumulatedTime >= minFrameTime at the loop test, and each executed step
\* adds one to the tick counter and subtracts exactly minFrameTime from
\* accumulatedTime.
C1_BoundedCatchUp ==
  Ran =>
    /\ frame.updates <= 5
    /\ CountOf(frame.log, "update") = frame.updates
    /\ \A k \in 1..frame.updates :
         /\ frame.tests[k] >= engine.minFrameTime
         /\ frame.tests[k + 1] = frame.tests[k] - engine.minFrameTime
    /\ engine.tpsCounter = frame.tpsBefore + frame.updates
    /\ frame.accLoop = frame.accIn - frame.updates * engine.minFrameTime

\* a frame that ran the maximal number of steps and still had a full step of
\* time left
C1_Witness ==
  /\ Running
  /\ frame.updates = 5
  /\ frame.accLoop >= engine.minFrameTime

\* C2: at the end of every non-paused frame accumulatedTime is 0 when frame
\* skipping is enabled and the leftover exceeds minFrameTime * framesToSkip,
\* and otherwise the leftover capped at 5 * minFrameTime; so it never exceeds
\* 5 * minFrameTime, and with skipping enabled and framesToSkip = 1 it never
\* exceeds minFrameTime.
C2_FrameSkipPolicy ==
  /\ engine.accumulatedTime <= 5 * engine.minFrameTime
  /\ Running =>
       /\ engine.accumulatedTime =
            IF /\ engine.enableFrameSkipping
               /\ frame.accLoop > engine.minFrameTime * engine.framesToSkip
            THEN 0
            ELSE IF frame.accLoop > 5 * engine.minFrameTime
                 THEN 5 * engine.minFrameTime
                 ELSE frame.accLoop
       /\ (engine.enableFrameSkipping /\ engine.framesToSkip = 1)
            => engine.accumulatedTime <= engine.minFrameTime

\* a frame whose leftover was cut down to the soft ceiling
C2_Witness ==
  /\ Running
  /\ ~engine.enableFrameSkipping
  /\ frame.accLoop > 5 * engine.minFrameTime
  /\ engine.accumulatedTime = 5 * engine.minFrameTime

\* C3: a frame-driver invocation that is neither stopped nor paused invokes
\* the draw pass exactly once, after all simulation steps of the frame,
\* however many steps ran.
C3_DrawOncePerFrame ==
  Running =>
    /\ CountOf(frame.log, "draw") = 1
    /\ \A i, j \in DOMAIN frame.log :
         (frame.log[i] = "update" /\ frame.log[j] = "draw") => i < j

\* a frame without any simulation step that still drew
C3_Witness ==
  /\ Running
  /\ frame.updates = 0
  /\ frame.initedAtEntry
  /\ CountOf(frame.log, "draw") = 1

\* C4: a frame-driver invocation (of a running engine) at which the loader's
\* pending asset count is greater than 0 executes no simulation step and no
\* draw pass and only schedules the next frame.
C4_PausedWhilePending ==
  (Ran /\ ~frame.stoppedAtEntry /\ frame.pendingAtEntry > 0)
    => (frame.log = <<"raf">> /\ frame.updates = 0)

C6_StoppedFrameIdles ==
  /\ (Ran /\ frame.stoppedAtEntry) =>
       /\ frame.log = <<>>
       /\ frame.updates = 0
       /\ rafPending = frame.rafAtEntry
       /\ engine.stopVal
  /\ (Ran /\ frame.stopAt >= 1) =>
       /\ engine.stopVal
       /\ frame.accLoop < engine.minFrameTime \/ frame.updates = 5
       /\ CountOf(frame.log, "draw") = 1
       /\ rafPending = frame.rafAtEntry + 1

\* the scheduled frame callback fired while stopped and left nothing scheduled
C6_Witness ==
  /\ Ran
  /\ frame.stoppedAtEntry
  /\ rafPending = 0
  /\ initCalls = 1

\* C7: start() on a stopped engine clears the stop flag, sets accumulatedTime
\* to 0 and lastUpdateTime to the current time and runs the frame driver,
\* which executes no catch-up step; start() on an engine that is not stopped
\* changes nothing and schedules no frame.
C7_StartResumes ==
  [][ (frame'.via \in {"start", "start-noop"}) =>
        IF engine.stopVal
        THEN /\ frame'.via = "start"
             /\ ~engine'.stopVal
             /\ engine'.accumulatedTime = 0
             /\ engine'.lastUpdateTime = now'
             /\ frame'.updates = 0
             /\ rafPending' = rafPending + 1
        ELSE /\ frame'.via = "start-noop"
             /\ UNCHANGED <<engine, assetsToLoad, rafPending, initCalls>>
    ]_vars

\* a resume after time went by while the engine was stopped
C7_Witness ==
  /\ frame.via = "start"
  /\ frame.elapsed >= 12
  /\ CountOf(frame.log, "draw") = 1
  /\ engine.accumulatedTime = 0

(***************************************************************************)
(* Properties of Collision and Platformer                                   *)
(***************************************************************************)
\* C8: A.getCollision().touching(B) is true exactly when A.x < B.x + B.width,
\* A.x + A.width > B.x, A.y < B.y + B.height and A.y + A.height > B.y; two
\* rectangles that share only an edge or a corner are not touching.
C8_TouchingStrict ==
  call.op = "touching" =>
    LET a == objs[call.self]
        b == objs[call.other]
    IN  /\ call.result <=> ( /\ a.x < b.x + b.width
                             /\ a.x + a.width > b.x
                             /\ a.y < b.y + b.height
                             /\ a.y + a.height > b.y )
        /\ ( \/ a.x + a.width = b.x \/ b.x + b.width = a.x
             \/ a.y + a.height = b.y \/ b.y + b.height = a.y )
             => ~call.result

\* two rectangles side by side with a common edge, asked and found apart
C8_Witness ==
  /\ call.op = "touching"
  /\ objs[call.self].x + objs[call.self].width = objs[call.other].x
  /\ objs[call.self].y = objs[call.other].y
  /\ call.result = FALSE

\* the Platformer has come to rest on the platform at the end of doGravity()
Rested ==
  /\ call.op = "doGravity"
  /\ objs[Self].vy = 0
  /\ objs[Self].hasPlatformerBelow
  /\ objs[Self].y = objs[Other].y - objs[Self].height

\* C9: a Platformer with vy = 0 and gravityAcc = 0.2 above a static platform
\* that overlaps it horizontally, with doGravity() called once per step,
\* comes to rest on the platform: it ends a doGravity() call with vy = 0,
\* hasPlatformerBelow = true and y = platform.y - self.height.  A falling
\* Platformer only moves down, so it can still come to rest only while it
\* has not passed that position: every doGravity() call ends either at rest
\* or with self still at or above the resting position.
C9_ComesToRest ==
  call.op = "doGravity" =>
    \/ Rested
    \/ /\ objs[Self].y <= objs[Other].y - objs[Self].height
       /\ objs[Self].vy > 0

\* the platforms below self at the time of a doJump call: the Platformer
\* instances of the registry other than self that overlap self moved down
\* one unit
PlatformersBelow(pre, r) ==
  { s \in { sprites[i] : i \in DOMAIN sprites } :
      /\ s # r
      /\ objs[s].kind = "Platformer"
      /\ pre.x < objs[s].x + objs[s].width
      /\ pre.x + pre.width > objs[s].x
      /\ pre.y + 100 < objs[s].y + objs[s].height
      /\ pre.y + 100 + pre.height > objs[s].y }

\* C10: doJump(jumpHeight) sets vy to -jumpHeight (as stored by setVY) if and
\* only if the probe one unit below self returns at least one Platformer;
\* otherwise vy is unchanged; x and y are unchanged in both cases.
C10_JumpOnlyFromPlatformer ==
  call.op = "doJump" =>
    LET me == objs[call.self]
    IN  /\ me.x = call.pre.x
        /\ me.y = call.pre.y
        /\ IF PlatformersBelow(call.pre, call.self) # {}
           THEN me.vy = SetVY(call.pre, -call.arg).vy
           ELSE me.vy = call.pre.vy

\* C11: a Platformer at rest on a platform has jumped: doJump(h1) has set vy
\* to -h1.  A doJump(h2) that follows immediately, before any doGravity(),
\* has no effect for any h2: vy stays as the first jump left it.
C11_NoDoubleJump ==
  (call.op = "doJump" /\ call.prev.tag = "jumped")
    => objs[call.self].vy = call.pre.vy

\* C15: once the host has narrowed the candidate set of a Platformer with
\* setPlatformerSpritesToCheckCollisionWith(S), the doGravity() calls that
\* follow resolve collisions against S only: the candidate set they examine,
\* which is the one self holds after the call, is S.
C15_NarrowedSetIsKept ==
  (call.op = "doGravity" /\ call.prev.tag = "narrowed")
    => objs[call.self].platformersToCheckCollision
         = call.pre.platformersToCheckCollision

(***************************************************************************)
(* Properties of the velocity calls                                         *)
(***************************************************************************)
\* v rounded to one decimal: the multiple of 0.1 nearest to v, the farther
\* from zero of the two when v lies half way
Rounded(v) ==
  CHOOSE m \in { 10 * k : k \in (v \div 10) - 1 .. (v \div 10) + 2 } :
    /\ Abs(m - v) <= 5
    /\ Abs(m - v) = 5 => Abs(m) > Abs(v)

\* v brought into [-max, max] when there is a limit
Clamped(v, max) ==
  IF max = Null THEN v
  ELSE IF v > max[1] THEN max[1]
  ELSE IF v < -max[1] THEN -max[1]
  ELSE v

\* C12: after every setVX(v) or setVY(v) call the stored velocity is v rounded
\* to one decimal and then clamped into [-max, max] when the limit of that
\* axis is non-null, and the rounded v when it is null; so with maxVX = 10
\* no setVX call stores more than 10, and setVX(-50) stores -10.
C12_SetterRoundsThenClamps ==
  /\ call.op = "setVX" =>
        LET me == objs[call.self]
        IN  /\ me.vx = Clamped(Rounded(call.arg), me.maxVX)
            /\ me.maxVX = Null => me.vx = Rounded(call.arg)
            /\ me.maxVX = <<1000>> =>
                  /\ me.vx <= 1000
                  /\ call.arg = -5000 => me.vx = -1000
  /\ call.op = "setVY" =>
        LET me == objs[call.self]
        IN  /\ me.vy = Clamped(Rounded(call.arg), me.maxVY)
            /\ me.maxVY = Null => me.vy = Rounded(call.arg)

\* with maxVX = 10, setVX(getVX() + 4) repeated from 0 has gone 4, 8 and
\* now stores exactly 10
C12_Witness ==
  /\ call.op = "setVX"
  /\ objs[Self].maxVX = <<1000>>
  /\ call.pre.vx = 800
  /\ call.arg = call.pre.vx + 400
  /\ objs[Self].vx = 1000

\* what a friction call stores: the product as the setter stores it, or 0
\* when that is below 0.3 in magnitude
FrictionStored ==
  /\ call.op = "addFrictionX" =>
        LET stored == SetVX(call.pre, Times(call.pre.vx, call.arg)).vx
            vx == objs[call.self].vx
        IN  /\ vx = IF Abs(stored) < 30 THEN 0 ELSE stored
            /\ vx = 0 \/ Abs(vx) >= 30
  /\ call.op = "addFrictionY" =>
        LET stored == SetVY(call.pre, Times(call.pre.vy, call.arg)).vy
            vy == objs[call.self].vy
        IN  /\ vy = IF Abs(stored) < 30 THEN 0 ELSE stored
            /\ vy = 0 \/ Abs(vy) >= 30

\* a friction call with 0 <= f < 1 on a moving Platformer brings the
\* velocity closer to 0.  The stored velocities are multiples of 0.1 or the
\* limit, so this is what makes repeated calls reach 0 in finitely many
\* steps; and a call that does not bring the velocity closer leaves it as it
\* is, for this call and for every repetition of it.
FrictionProgress ==
  /\ (call.op = "addFrictionX" /\ call.arg < 100 /\ call.pre.vx # 0)
       => Abs(objs[call.self].vx) < Abs(call.pre.vx)
  /\ (call.op = "addFrictionY" /\ call.arg < 100 /\ call.pre.vy # 0)
       => Abs(objs[call.self].vy) < Abs(call.pre.vy)

\* C13: after addFrictionX(f) or addFrictionY(f) the stored velocity is the
\* previous velocity times f as stored by the setter, or exactly 0 when that
\* has a magnitude below 0.3; so after any friction call the velocity is 0
\* or has magnitude at least 0.3, and repeated friction with 0 <= f < 1
\* reaches exactly 0 in finitely many calls.
C13_FrictionDecays == FrictionStored /\ FrictionProgress

(***************************************************************************)
(* Properties of the probes                                                 *)
(***************************************************************************)
ProbeOps == { "getSpriteAboveSelf", "getSpriteBelowSelf",
              "getSpriteLeftSelf", "getSpriteRightSelf" }

\* the rectangle of object me displaced by (dx, dy) overlaps object b
OverlapsDisplaced(me, dx, dy, b) ==
  /\ me.x + dx < b.x + b.width
  /\ me.x + dx + me.width > b.x
  /\ me.y + dy < b.y + b.height
  /\ me.y + dy + me.height > b.y

\* the registered sprites other than r that overlap r displaced by one unit
\* in the direction of the probe op, in registry order
Overlapping(o, sp, r, op) ==
  LET dx == IF op = "getSpriteLeftSelf" THEN -100
            ELSE IF op = "getSpriteRightSelf" THEN 100 ELSE 0
      dy == IF op = "getSpriteAboveSelf" THEN -100
            ELSE IF op = "getSpriteBelowSelf" THEN 100 ELSE 0
  IN  SelectSeq(sp, LAMBDA s : s # r /\ OverlapsDisplaced(o[r], dx, dy, o[s]))

\* C14: each directional probe leaves the position of self and the whole
\* registry (the sequence and every object in it) as they were before the
\* call, and returns exactly the registered sprites other than self that
\* overlap self displaced by one unit in that direction, evaluated against
\* the registry as it is at the call, in registry order.
C14_ProbeSideEffectFree ==
  [][ call'.op \in ProbeOps =>
        /\ objs'[call'.self].x = objs[call'.self].x
        /\ objs'[call'.self].y = objs[call'.self].y
        /\ objs' = objs
        /\ sprites' = sprites
        /\ call'.result = Overlapping(objs, sprites, call'.self, call'.op) ]_vars

\* the same for the calls made where every sum is exact
ProbeNearOrigin ==
  [][ (call'.op \in ProbeOps /\ objs[Self].x = 0 /\ objs[Self].y = 0) =>
        /\ objs' = objs
        /\ sprites' = sprites
        /\ call'.result = Overlapping(objs, sprites, call'.self, call'.op) ]_vars

(***************************************************************************)
(* Properties of the registry                                               *)
(***************************************************************************)
\* the ids of the objects of a registry sequence
IdsOf(seq) == { objs[seq[i]].id : i \in DOMAIN seq }

\* C16: in every registry state reached by constructions, addNewSprite,
\* addParticle, setId and delete, no two registered objects (sprites and
\* particles) have the same id.
C16_UniqueIds ==
  LET registered == sprites \o particles
  IN  \A i, j \in DOMAIN registered :
        i # j => objs[registered[i]].id # objs[registered[j]].id

\* C17: constructing a Sprite whose id is the id of a sprite in the registry
\* fails with an error, makes no object and leaves the registry unchanged;
\* constructing it with an id no registered sprite has succeeds, and after
\* deleteSpriteById(id) no registered sprite has that id.
C17_DuplicateSpriteIdRejected ==
  /\ call.op = "newSprite" =>
        IF call.arg \in IdsOf(call.pre.sprites)
        THEN /\ call.result = "error"
             /\ call.self = ""
             /\ sprites = call.pre.sprites
             /\ particles = call.pre.particles
        ELSE /\ call.result = "ok"
             /\ objs[call.self].id = call.arg
             /\ sprites = call.pre.sprites
  /\ call.op = "deleteSpriteById" => call.arg \notin IdsOf(sprites)
  /\ (call.op = "newSprite" /\ call.prev.tag = "deleted"
        /\ call.prev.arg = call.arg) => call.result = "ok"

\* a sprite was registered, deleteSpriteById took it out, and the next call
\* has constructed another Sprite under its id
C17_Witness ==
  /\ call.op = "newSprite"
  /\ call.prev.tag = "deleted"
  /\ call.prev.arg = call.arg
  /\ call.result = "ok"
  /\ \E r \in DOMAIN objs : r # call.self /\ objs[r].id = call.arg

\* C18: setId(newId) fails and leaves the id unchanged when another
\* registered object already has newId, and succeeds (the id is newId
\* afterwards) when no other registered object has it, also when newId is
\* the object's own id.
C18_SetIdChecksOthers ==
  call.op = "setId" =>
    LET registered == sprites \o particles
        others == { i \in DOMAIN registered :
                      /\ registered[i] # call.self
                      /\ objs[registered[i]].id = call.arg }
    IN  IF others # {}
        THEN call.result = "error" /\ objs[call.self].id = call.pre.id
        ELSE call.result = "ok" /\ objs[call.self].id = call.arg

\* C19: the id check at construction covers every live object: constructing
\* a Particle whose id is the id of a registered Particle fails.
C19_DuplicateParticleIdRejected ==
  (call.op = "newParticle" /\ call.arg \in IdsOf(call.pre.particles))
    => call.result = "error"

\* the place of sprite r in the order of insertion of an addNewSprite call:
\* the sprites of the registry before the call, then those of the argument
InsertionPlace(r) ==
  IF \E i \in DOMAIN call.pre.sprites : call.pre.sprites[i] = r
  THEN CHOOSE i \in DOMAIN call.pre.sprites : call.pre.sprites[i] = r
  ELSE Len(call.pre.sprites)
         + (CHOOSE i \in DOMAIN call.arg :
              call.arg[i] = r /\ \A j \in 1 .. i - 1 : call.arg[j] # r)

\* C20: immediately after every addNewSprite call (one sprite or an array)
\* the sprite sequence holds the sprites it held and those of the argument,
\* each once, sorted ascending by stageLevel, and sprites of equal stageLevel
\* stand in the order of their insertion.
C20_SortedAfterAdd ==
  call.op = "addNewSprite" =>
    /\ { sprites[i] : i \in DOMAIN sprites }
         = { call.pre.sprites[i] : i \in DOMAIN call.pre.sprites }
             \cup { call.arg[i] : i \in DOMAIN call.arg }
    /\ \A i, j \in DOMAIN sprites :
         i < j =>
           /\ sprites[i] # sprites[j]
           /\ objs[sprites[i]].stageLevel <= objs[sprites[j]].stageLevel
           /\ objs[sprites[i]].stageLevel = objs[sprites[j]].stageLevel
                => InsertionPlace(sprites[i]) < InsertionPlace(sprites[j])

\* sprites of the stage levels 3, 1, 2 inserted in this order stand as 1, 2, 3
C20_Witness ==
  /\ call.op = "addNewSprite"
  /\ call.pre.sprites = <<"b", "a">>
  /\ call.arg = <<"c">>
  /\ objs["a"].stageLevel = 3
  /\ objs["b"].stageLevel = 1
  /\ objs["c"].stageLevel = 2
  /\ sprites = <<"b", "c", "a">>

\* C21: addNewSprite or addParticle with a reference that is already in the
\* registry is a no-op: the registry holds the reference once and the
\* sequences of sprites and of particles are the same before and after.
C21_ReAddIsNoOp ==
  /\ (call.op = "addNewSprite" /\ Len(call.arg) = 1
        /\ Includes(call.pre.sprites, call.arg[1]))
       => /\ sprites = call.pre.sprites
          /\ particles = call.pre.particles
          /\ Cardinality({ i \in DOMAIN sprites : sprites[i] = call.arg[1] }) = 1
  /\ (call.op = "addParticle" /\ Includes(call.pre.particles, call.arg[1]))
       => /\ sprites = call.pre.sprites
          /\ particles = call.pre.particles
          /\ Cardinality({ i \in DOMAIN particles : particles[i] = call.arg[1] }) = 1

\* object r is an instance of type T or of a type derived from T
IsA(r, T) ==
  \/ objs[r].kind = T
  \/ (T = "Sprite" /\ objs[r].kind = "Platformer")

\* seq without the elements that satisfy Gone, in the order of seq
Without(seq, Gone(_)) == SelectSeq(seq, LAMBDA r : ~Gone(r))

\* C22: deleteSpritesByType(T) removes from the registry exactly the sprites
\* that are instances of T or of a type derived from T and keeps every
\* other sprite in its previous relative order; deleteParticlesByType(T)
\* does the same for particles; neither raises an error when nothing
\* matches.
C22_DeleteByTypeRemovesInstances ==
  /\ call.op = "deleteSpritesByType" =>
        /\ call.result = "ok"
        /\ sprites = Without(call.pre.sprites, LAMBDA r : IsA(r, call.arg))
        /\ particles = call.pre.particles
  /\ call.op = "deleteParticlesByType" =>
        /\ call.result = "ok"
        /\ particles = Without(call.pre.particles, LAMBDA r : IsA(r, call.arg))
        /\ sprites = call.pre.sprites

\* C23: a query or deletion for an id that no registered object has is not
\* an error: getSpriteById and getParticleById return undefined (Null)
\* without raising, deleteSpriteById and deleteParticleById leave both
\* sequences as they were; deleteSpriteById(id) with a match removes only
\* the sprites of that id and keeps the others in their order.
C23_AbsenceIsNoError ==
  /\ call.op = "getSpriteById" =>
        /\ call.arg \notin IdsOf(sprites) => call.result = Null
        /\ call.arg \in IdsOf(sprites) =>
              /\ Len(call.result) = 1
              /\ Includes(sprites, call.result[1])
              /\ objs[call.result[1]].id = call.arg
        /\ sprites = call.pre.sprites /\ particles = call.pre.particles
  /\ call.op = "getParticleById" =>
        /\ call.arg \notin IdsOf(particles) => call.result = Null
        /\ call.arg \in IdsOf(particles) =>
              /\ Len(call.result) = 1
              /\ Includes(particles, call.result[1])
              /\ objs[call.result[1]].id = call.arg
        /\ sprites = call.pre.sprites /\ particles = call.pre.particles
  /\ call.op = "deleteSpriteById" =>
        /\ call.result = "ok"
        /\ call.arg \notin IdsOf(call.pre.sprites) => sprites = call.pre.sprites
        /\ sprites = Without(call.pre.sprites, LAMBDA r : objs[r].id = call.arg)
        /\ particles = call.pre.particles
  /\ call.op = "deleteParticleById" =>
        /\ call.result = "ok"
        /\ call.arg \notin IdsOf(call.pre.particles)
              => particles = call.pre.particles
        /\ particles = Without(call.pre.particles, LAMBDA r : objs[r].id = call.arg)
        /\ sprites = call.pre.sprites

\* deleteSpriteById has taken a sprite out from between two sprites of the
\* other id, and these stand as they stood
MiddleSpriteDeleted ==
  /\ call.op = "deleteSpriteById"
  /\ Len(call.pre.sprites) = 3
  /\ objs[call.pre.sprites[2]].id = call.arg
  /\ sprites = <<call.pre.sprites[1], call.pre.sprites[3]>>

\* deleteSpriteById for an id that no registered sprite has, with sprites in
\* the registry
C23_Witness ==
  /\ call.op = "deleteSpriteById"
  /\ call.arg \notin IdsOf(call.pre.sprites)
  /\ Len(sprites) > 0

\* C26: setMaxVX(m) and setMaxVY(m) change only the max: vx and vy (and
\* everything else of the Platformer) are as before, also when their
\* magnitude exceeds the new max; the clamp is applied by the next setVX or
\* setVY, whose stored value lies within the limit.
C26_SetMaxLeavesVelocity ==
  /\ call.op = "setMaxVX" =>
        /\ objs[call.self].maxVX = call.result
        /\ objs[call.self].vx = call.pre.vx
        /\ objs[call.self].vy = call.pre.vy
        /\ objs[call.self] = [call.pre EXCEPT !.maxVX = call.result]
  /\ call.op = "setMaxVY" =>
        /\ objs[call.self].maxVY = call.result
        /\ objs[call.self].vx = call.pre.vx
        /\ objs[call.self].vy = call.pre.vy
        /\ objs[call.self] = [call.pre EXCEPT !.maxVY = call.result]
  /\ (call.op = "setVX" /\ objs[call.self].maxVX # Null)
       => Abs(objs[call.self].vx) <= objs[call.self].maxVX[1]
  /\ (call.op = "setVY" /\ objs[call.self].maxVY # Null)
       => Abs(objs[call.self].vy) <= objs[call.self].maxVY[1]

\* setMaxVX(0.2) on a Platformer that moves faster than 0.2, which it still
\* does after the call
C26_Witness ==
  /\ call.op = "setMaxVX"
  /\ call.result = <<20>>
  /\ Abs(objs[call.self].vx) > 20

\* C25: in every reachable engine state, also after init(settings) and after
\* setIdealTps(v), minFrameTime is 1000 / idealTps (in whole milliseconds).
C25_StepMatchesTickRate ==
  engine.minFrameTime = 1000 \div engine.idealTps

\* C27: an error raised by a host callback (the host update, an object's
\* update() or the host init) during a frame leaves the frame driver
\* uncaught: the callback that raised is the last thing the frame did, so
\* no further step, no draw pass and no re-scheduling follow, and no more
\* callbacks are scheduled than before the frame.
C27_ErrorsPropagate ==
  (Ran /\ frame.thrown) =>
    /\ Len(frame.log) > 0
    /\ frame.log[Len(frame.log)] \in {"init", "update"}
    /\ CountOf(frame.log, "draw") = 0
    /\ CountOf(frame.log, "raf") = 0
    /\ rafPending = frame.rafAtEntry
    /\ frame.log[Len(frame.log)] = "init" =>
          /\ frame.updates = 0
          /\ ~engine.hasInited
    /\ frame.log[Len(frame.log)] = "update" =>
          CountOf(frame.log, "update") = frame.updates + 1

\* a frame due for two steps whose first step raised: the loop has stopped
C27_Witness ==
  /\ frame.via = "raf"
  /\ frame.thrown
  /\ frame.accIn >= 2 * engine.minFrameTime
  /\ CountOf(frame.log, "update") = 1
  /\ rafPending = 0

\* C24: in every simulation step in which the camera follows a sprite, the
\* camera stage puts the camera at that sprite's position after the sprite
\* updates of the step, less half the canvas width and height, each rounded
\* to one decimal; in a step in which it follows nothing the camera stays
\* where it was.
C24_CameraFollows ==
  call.op = "update" =>
    IF call.arg.followed # Null
    THEN /\ call.arg.camera.x
              = Rounded(call.arg.followed[1] - objs[Canvas].width \div 2)
         /\ call.arg.camera.y
              = Rounded(call.arg.followed[2] - objs[Canvas].height \div 2)
    ELSE /\ call.arg.camera = call.pre
         /\ objs[Cam] = call.pre

\* a step whose sprite update moved the followed sprite and whose host
\* update moved it again: the camera was put by the first position
C24_Witness ==
  /\ call.op = "update"
  /\ call.arg.followed = <<125, -75>>
  /\ objs[Self].x = 175
  /\ call.pre.toFollow = <<Self>>
  /\ call.arg.camera.x # call.pre.x
  /\ call.arg.camera.x # call.arg.followed[1] - objs[Canvas].width \div 2

\* a step in which the camera follows nothing, away from the origin
C24_WitnessIdle ==
  /\ call.op = "update"
  /\ call.arg.followed = Null
  /\ objs[Cam].x = -130
  /\ objs[Self].x # 0

Examine(me, p) ==
  IF Touching(me, p)
  THEN [me EXCEPT !.y = IF me.vy < 0 THEN Fl(p.y + p.height)
                                     ELSE Fl(p.y - me.height),
                  !.hasPlatformerBelow = IF me.vy < 0 THEN @ ELSE TRUE,
                  !.vy = 0]
  ELSE me

\* the candidates cs[i..] other than r examined in order
RECURSIVE ExamineAll(_, _, _, _)
ExamineAll(me, r, cs, i) ==
  IF i > Len(cs) THEN me
  ELSE ExamineAll(IF cs[i] = r THEN me ELSE Examine(me, objs[cs[i]]),
                  r, cs, i + 1)

\* self as C29 says it stands at the end of the forEach of a doGravity call
Examined ==
  ExamineAll([call.pre EXCEPT !.y = Fl(call.pre.y + call.pre.vy),
                              !.hasPlatformerBelow = FALSE],
             call.self, objs[call.self].platformersToCheckCollision, 1)

\* C29: in doGravity(), after y += vy, every candidate other than self that
\* self is touching when it is examined puts self below it (y = p.y +
\* p.height) if vy < 0 and on top of it (y = p.y - self.height,
\* hasPlatformerBelow = true) otherwise, and then sets vy to 0; a candidate
\* that self is not touching when examined changes nothing.
C29_ContactsSnap ==
  call.op = "doGravity" =>
    /\ objs[call.self].y = Examined.y
    /\ objs[call.self].hasPlatformerBelow = Examined.hasPlatformerBelow
    /\ call.result.vy = Examined.vy

\* a candidate that self has landed on: self stands on its top edge, or a
\* nudge below it
LandedOn(me, r) ==
  { p \in { me.platformersToCheckCollision[i] :
              i \in DOMAIN me.platformersToCheckCollision } :
      /\ p # r
      /\ \/ me.y = Fl(objs[p].y - me.height)
         \/ me.y = Fl(Fl(objs[p].y - me.height) + Nudge) }

\* C30: at the end of every doGravity() call vy is incremented by
\* gravityAcc (as setVY stores it) exactly when hasPlatformerBelow is false
\* after the collision resolution, and is left as the resolution set it
\* when hasPlatformerBelow is true; hasPlatformerBelow is computed anew in
\* every call, so it is true only if self has landed on a candidate in this
\* call.
C30_GravityUnlessGrounded ==
  call.op = "doGravity" =>
    LET me == objs[call.self]
    IN  /\ me.hasPlatformerBelow = call.result.hasPlatformerBelow
        /\ me.hasPlatformerBelow => me.vy = call.result.vy
        /\ ~me.hasPlatformerBelow =>
              me.vy = Clamped(Rounded(call.result.vy + call.pre.gravityAcc),
                              call.pre.maxVY)
        /\ me.hasPlatformerBelow => LandedOn(me, call.self) # {}

\* a call that starts grounded and ends airborne with gravity added
C30_Witness ==
  /\ call.op = "doGravity"
  /\ call.pre.hasPlatformerBelow
  /\ ~objs[Self].hasPlatformerBelow
  /\ objs[Self].vy = call.result.vy + call.pre.gravityAcc

\* a call that ends grounded: no gravity is added
C30_WitnessGrounded ==
  /\ call.op = "doGravity"
  /\ call.pre.vy > 0
  /\ objs[Self].hasPlatformerBelow
  /\ objs[Self].vy = 0

\* C38: in every reachable state the sprite sequence of the registry is
\* sorted ascending by stageLevel, also after setStageLevel on a registered
\* sprite and after a delete, so that the draw pass paints lower stage
\* levels first.
C38_RegistrySorted ==
  \A i, j \in DOMAIN sprites :
    i < j => objs[sprites[i]].stageLevel <= objs[sprites[j]].stageLevel

\* C35: once a doGravity() call has ended with the Platformer at rest on
\* the static platform (hasPlatformerBelow = true, vy = 0, y = platform.y -
\* self.height) and nothing else changes, the doGravity() call that follows
\* also ends with hasPlatformerBelow = true and vy = 0: the grounded state
\* does not alternate with an airborne one.
C35_GroundedIsStable ==
  [][ Rested => (objs'[Self].hasPlatformerBelow /\ objs'[Self].vy = 0) ]_vars

\* C36: a doGravity() call that starts with vy < 0 (the Platformer is
\* moving upward) never ends with hasPlatformerBelow = true and never
\* places self on top of a candidate, whatever candidates it touches.
C36_RisingNeverLands ==
  (call.op = "doGravity" /\ call.pre.vy < 0) =>
    /\ ~objs[call.self].hasPlatformerBelow
    /\ LandedOn(objs[call.self], call.self) = {}

\* C34: for every interleaving of stop(), start() and frame callbacks at
\* most one invocation of the frame driver is pending at any time: stop()
\* followed by start() before the scheduled callback has fired does not
\* make a second chain of frame callbacks.
C34_OneChain == rafPending <= 1

\* C37: time during which the engine is paused for asset loading is not
\* caught up: the first frame that runs after the pending asset count has
\* reached 0 (the frame that clears the pause flag) executes at most one
\* simulation step.  The frames looked at come no later than one tick
\* after the handler before them, so that only paused time can make them
\* run more than one step.
C37_PauseNotCaughtUp ==
  [][ ( /\ engine.hasLoadedAssets
        /\ ~engine'.hasLoadedAssets
        /\ now' - now <= engine.minFrameTime )
        => frame'.updates <= 1 ]_vars

\* the callbacks of kind k for the objects of seq, in the order of seq
InOrder(k, seq) == [i \in DOMAIN seq |-> <<k, seq[i]>>]

Touched(me) ==
  SelectSeq(objs[call.self].platformersToCheckCollision,
            LAMBDA p : p # call.self /\ Touching(me, objs[p]))

\* C31: moveX(dx) adds dx to x and then, for every candidate touching self,
\* sets x to p.x - self.width when dx > 0 and to p.x + p.width otherwise
\* (the last candidate touched decides); moveY(dy) does the same on the y
\* axis; both leave vx, vy, hasPlatformerBelow and the other coordinate as
\* they were, and with no touching candidate the result is exactly the
\* displaced position.
C31_MoveSnaps ==
  /\ call.op = "moveX" =>
        LET me == objs[call.self]
            moved == [call.pre EXCEPT !.x = Fl(call.pre.x + call.arg)]
            ts == Touched(moved)
            last == objs[ts[Len(ts)]]
        IN  /\ me.x = IF Len(ts) = 0 THEN moved.x
                      ELSE IF call.arg > 0 THEN Fl(last.x - me.width)
                      ELSE Fl(last.x + last.width)
            /\ me.y = call.pre.y
            /\ me.vx = call.pre.vx /\ me.vy = call.pre.vy
            /\ me.hasPlatformerBelow = call.pre.hasPlatformerBelow
  /\ call.op = "moveY" =>
        LET me == objs[call.self]
            moved == [call.pre EXCEPT !.y = Fl(call.pre.y + call.arg)]
            ts == Touched(moved)
            last == objs[ts[Len(ts)]]
        IN  /\ me.y = IF Len(ts) = 0 THEN moved.y
                      ELSE IF call.arg > 0 THEN Fl(last.y - me.height)
                      ELSE Fl(last.y + last.height)
            /\ me.x = call.pre.x
            /\ me.vx = call.pre.vx /\ me.vy = call.pre.vy
            /\ me.hasPlatformerBelow = call.pre.hasPlatformerBelow

\* a moveX to the right that was stopped at the left edge of a candidate,
\* of a Platformer that has velocity and is grounded
C31_Witness ==
  /\ call.op = "moveX"
  /\ call.arg = 70
  /\ objs[Self].x < call.pre.x + 70
  /\ objs[Self].vx = 40
  /\ objs[Self].hasPlatformerBelow
  /\ Len(Touched([call.pre EXCEPT !.x = call.pre.x + 70])) > 0

\* the candidates other than self that overlap me
Penetrated(me) ==
  { p \in { objs[call.self].platformersToCheckCollision[i] :
              i \in DOMAIN objs[call.self].platformersToCheckCollision } :
      /\ p # call.self
      /\ me.x < objs[p].x + objs[p].width
      /\ me.x + me.width > objs[p].x
      /\ me.y < objs[p].y + objs[p].height
      /\ me.y + me.height > objs[p].y }

\* C32: a Platformer that overlaps no candidate before a doGravity(),
\* moveX(dx) or moveY(dy) call overlaps no candidate when the call
\* returns, whatever the candidates and the displacement.
C32_NoPenetration ==
  (call.op \in {"doGravity", "moveX", "moveY"} /\ Penetrated(call.pre) = {})
    => Penetrated(objs[call.self]) = {}

====
